---- MODULE Spec2Model ----
(***************************************************************************)
(* Resilience and caching layer of realtime-register-mcp:                  *)
(*   - LRUCache            (cache/lru-cache.ts, src/unnamed/part_000)      *)
(*   - CircuitBreaker      (src/src/monitoring/circuit-breaker.ts)         *)
(*   - SlidingWindowRateLimiter (rate-limiter.ts, src/unnamed/part_002)    *)
(*   - ApiMonitor          (src/src/monitoring/api-monitor.ts)             *)
(* Each component has its own specification (SpecCache, SpecCB, SpecRL,    *)
(* SpecMon); the variables of the other components stay at their initial   *)
(* values.                                                                 *)
(* Time is the reading of Date.now(); one synchronous call reads one       *)
(* clock value, and the clock advances between calls (Tick).               *)
(***************************************************************************)
EXTENDS Integers, Sequences, FiniteSets, TLC

VARIABLES
    now,                 \* Date.now()
    \* ---- LRUCache fields
    cache,               \* Map<string, CacheEntry>: sequence in Map iteration order
    maxSize, defaultTTL, memoryThreshold,
    hits, misses, evictions, cleanups, currentMemoryUsage,
    cacheOps,            \* number of cache calls made so far (bounds the run)
    lastOp,              \* the last cache call: its arguments and what it returned
    recency,             \* keys in order of their last set / successful get
    \* ---- CircuitBreaker fields
    config,              \* CircuitBreakerConfig
    state, failureCount, successCount, consecutiveSuccesses,
    totalRequests, totalFailures, totalSuccesses,
    lastFailureTime, lastSuccessTime,   \* NoTime stands for null
    currentTimeout,      \* a rational number of milliseconds
    stateChangedAt,
    failures,            \* timestamps of failures, oldest first
    calls,               \* the execute calls: where each is and what it returned
    cbOps,               \* number of breaker API calls made so far (bounds the run)
    lastCb,              \* the last breaker step
    \* ---- SlidingWindowRateLimiter fields
    rlConfig,            \* Required<RateLimitConfig>
    windows,             \* Map<number, number>: window key -> count
    consumed,            \* times of the requests consumed since the last reset()
    rlOps,               \* number of limiter calls made so far (bounds the run)
    lastRl,              \* the last limiter call: its arguments and its result
    \* ---- ApiMonitor fields
    monConfig,           \* MonitoringConfig
    alerts,              \* MonitoringAlert[], in array order
    apiMetrics,          \* ApiMetrics counters and times
    requestTimes,        \* rolling window of response times
    startTime,
    metricsTimer,        \* TRUE while the setInterval timer is installed
    emitted,             \* the events the listeners have received, in order
    monOps,              \* number of monitor steps made so far (bounds the run)
    lastMon,             \* the last monitor call: its arguments and its result
    \* ---- CacheFactory fields and the caches it has created
    caches,              \* Map<string, LRUCache>: [key, inst] in insertion order
    instances,           \* the LRUCache objects ever constructed, by identity
    facOps,              \* number of factory steps made so far (bounds the run)
    lastFac,             \* the last factory call: its arguments and its result
    \* ---- the constructor call that made the breaker or the limiter
    built,               \* its class, its argument and the error it threw
    \* ---- CachedRealtimeRegisterClient fields
    clOptions,           \* enableCaching, fallbackOnCacheError
    clCache,             \* domainAvailabilityCache: cache key -> stored response
    clOps,               \* number of client calls made so far (bounds the run)
    lastCl               \* the last client call: its inputs and what it did

cacheVars == <<cache, maxSize, defaultTTL, memoryThreshold, hits, misses,
               evictions, cleanups, currentMemoryUsage, cacheOps, lastOp, recency>>

breakerVars == <<state, failureCount, successCount, consecutiveSuccesses,
                 totalRequests, totalFailures, totalSuccesses, lastFailureTime,
                 lastSuccessTime, currentTimeout, stateChangedAt, failures>>

cbVars == <<config, breakerVars, calls, cbOps, lastCb>>

rlVars == <<rlConfig, windows, consumed, rlOps, lastRl>>

monVars == <<monConfig, alerts, apiMetrics, requestTimes, startTime, metricsTimer,
             emitted, monOps, lastMon>>

facVars == <<caches, instances, facOps, lastFac>>

clVars == <<clOptions, clCache, clOps, lastCl>>

extVars == <<facVars, built, clVars>>

auxVars == <<rlVars, monVars, extVars>>

vars == <<now, cacheVars, cbVars, auxVars>>

(***************************************************************************)
(* Bounds                                                                  *)
(***************************************************************************)
MaxTime == 2
MaxCacheOps == 4
MaxCbTime == 4
MaxCbOps == 4
MaxSeqTime == 5
MaxSeqOps == 4
MaxRlTime == 6
MaxRlOps == 5
MaxMonOps == 3
MaxFacTime == 1
MaxFacOps == 4
MaxClOps == 2
MaxBulk == 2

(***************************************************************************)
(* Generic helpers                                                         *)
(***************************************************************************)
Max(a, b) == IF a >= b THEN a ELSE b

Tick ==
    /\ now < MaxTime
    /\ now' = now + 1

(***************************************************************************)
(* LRUCache                                                                *)
(***************************************************************************)
Keys == {"A", "B", "C"}

\* Values are described by their typeof and length; Null is get's "absent".
Null == [kind |-> "null", n |-> 0]
StrValue == [kind |-> "string", n |-> 1]
NumValue == [kind |-> "number", n |-> 0]
Values == {StrValue, NumValue}

\* ttl argument of set: a number, or NoTTL (the parameter left out)
NoTTL == [given |-> FALSE, ms |-> 0]
TTLArgs == {NoTTL} \cup {[given |-> TRUE, ms |-> x] : x \in {0, 1}}

\* estimateSize: 2 bytes per key character, a type-dependent value size, 50 overhead
estimateSize(key, value) ==
    LET keyPart == Len(key) * 2
        valPart == CASE value.kind = "string" -> value.n * 2
                     [] value.kind = "number" -> 8
                     [] value.kind = "boolean" -> 1
                     [] value.kind = "object" -> value.n * 2
                     [] OTHER -> 50
    IN  keyPart + valPart + 50

\* The cache object as one record, so that methods can call one another.
CacheObj == [cache |-> cache, hits |-> hits, misses |-> misses,
             evictions |-> evictions, cleanups |-> cleanups,
             currentMemoryUsage |-> currentMemoryUsage]

Install(c) ==
    /\ cache' = c.cache
    /\ hits' = c.hits
    /\ misses' = c.misses
    /\ evictions' = c.evictions
    /\ cleanups' = c.cleanups
    /\ currentMemoryUsage' = c.currentMemoryUsage

KeysOf(m) == {m[i].key : i \in 1..Len(m)}
IndexOf(m, key) == CHOOSE i \in 1..Len(m) : m[i].key = key
EntryOf(m, key) == m[IndexOf(m, key)]
MapDelete(m, key) == SelectSeq(m, LAMBDA e : e.key # key)

isExpiredNoZeroCheck(entry, t) == t - entry.timestamp > entry.ttl
isExpired(entry, t) ==
    IF entry.ttl <= 0 THEN TRUE ELSE t - entry.timestamp > entry.ttl

updateMemoryUsage(c, entry, operation) ==
    IF operation = "add"
    THEN [c EXCEPT !.currentMemoryUsage = @ + entry.size]
    ELSE [c EXCEPT !.currentMemoryUsage = Max(0, @ - entry.size)]

evictNewest(c) ==
    IF c.cache = <<>> THEN c
    ELSE LET last == c.cache[Len(c.cache)]
             c1 == [c EXCEPT !.cache = SubSeq(c.cache, 1, Len(c.cache) - 1)]
             c2 == updateMemoryUsage(c1, last, "delete")
         IN  [c2 EXCEPT !.evictions = @ + 1]
evictLRU(c) ==
    IF c.cache = <<>> THEN c
    ELSE LET first == Head(c.cache)
             c1 == [c EXCEPT !.cache = Tail(c.cache)]
             c2 == updateMemoryUsage(c1, first, "delete")
         IN  [c2 EXCEPT !.evictions = @ + 1]

\* cleanup(): deletes every expired entry, one updateMemoryUsage(...,'delete') each
RECURSIVE CleanupLoop(_, _, _)
CleanupLoop(c, todo, t) ==
    IF todo = <<>> THEN c
    ELSE LET e == Head(todo)
         IN  IF isExpired(e, t)
             THEN CleanupLoop(updateMemoryUsage([c EXCEPT !.cache = MapDelete(@, e.key)],
                                                e, "delete"),
                              Tail(todo), t)
             ELSE CleanupLoop(c, Tail(todo), t)

cleanup(c, t) ==
    LET c1 == CleanupLoop(c, c.cache, t)
        cleanedCount == Len(c.cache) - Len(c1.cache)
    IN  IF cleanedCount > 0 THEN [c1 EXCEPT !.cleanups = @ + 1] ELSE c1

RECURSIVE EvictWhileOver(_, _)
EvictWhileOver(c, threshold) ==
    IF c.currentMemoryUsage > threshold /\ Len(c.cache) > 0
    THEN EvictWhileOver(evictLRU(c), threshold)
    ELSE c

\* the pass without the purge of the expired entries
performMemoryCleanupEvictOnly(c, threshold, t) ==
    EvictWhileOver([c EXCEPT !.cleanups = @ + 1], threshold)

performMemoryCleanup(c, threshold, t) ==
    LET c1 == cleanup(c, t)
        c2 == [c1 EXCEPT !.cleanups = @ + 1]
    IN  EvictWhileOver(c2, threshold)

\* set's capacity test: this.cache.size >= this.maxSize
atCapacityStrict(c) == Len(c.cache) > maxSize
atCapacity(c) == Len(c.cache) >= maxSize

setCacheNoDefaultTTL(c, key, value, ttlArg, t) ==
    LET estimatedSize == estimateSize(key, value)
        c1 == IF key \in KeysOf(c.cache)
              THEN updateMemoryUsage([c EXCEPT !.cache = MapDelete(@, key)],
                                     EntryOf(c.cache, key), "delete")
              ELSE IF atCapacity(c) THEN evictLRU(c) ELSE c
        entry == [key |-> key, value |-> value, timestamp |-> t,
                  ttl |-> ttlArg.ms, size |-> estimatedSize]
        c2 == updateMemoryUsage([c1 EXCEPT !.cache = Append(@, entry)], entry, "add")
    IN  IF c2.currentMemoryUsage > memoryThreshold
        THEN performMemoryCleanup(c2, memoryThreshold, t)
        ELSE c2

setCacheEvictOnOverwrite(c, key, value, ttlArg, t) ==
    LET actualTTL == IF ttlArg.given THEN ttlArg.ms ELSE defaultTTL
        estimatedSize == estimateSize(key, value)
        c0 == IF atCapacity(c) THEN evictLRU(c) ELSE c
        c1 == IF key \in KeysOf(c0.cache)
              THEN updateMemoryUsage([c0 EXCEPT !.cache = MapDelete(@, key)],
                                     EntryOf(c0.cache, key), "delete")
              ELSE c0
        entry == [key |-> key, value |-> value, timestamp |-> t,
                  ttl |-> actualTTL, size |-> estimatedSize]
        c2 == updateMemoryUsage([c1 EXCEPT !.cache = Append(@, entry)], entry, "add")
    IN  IF c2.currentMemoryUsage > memoryThreshold
        THEN performMemoryCleanup(c2, memoryThreshold, t)
        ELSE c2

\* set(key, value, ttl)
setCache(c, key, value, ttlArg, t) ==
    LET actualTTL == IF ttlArg.given THEN ttlArg.ms ELSE defaultTTL
        estimatedSize == estimateSize(key, value)
        c1 == IF key \in KeysOf(c.cache)
              THEN updateMemoryUsage([c EXCEPT !.cache = MapDelete(@, key)],
                                     EntryOf(c.cache, key), "delete")
              ELSE IF atCapacity(c) THEN evictLRU(c) ELSE c
        entry == [key |-> key, value |-> value, timestamp |-> t,
                  ttl |-> actualTTL, size |-> estimatedSize]
        c2 == updateMemoryUsage([c1 EXCEPT !.cache = Append(@, entry)], entry, "add")
    IN  IF c2.currentMemoryUsage > memoryThreshold
        THEN performMemoryCleanup(c2, memoryThreshold, t)
        ELSE c2

\* get(key): the new cache object and the returned value
getCache(c, key, t) ==
    IF key \notin KeysOf(c.cache)
    THEN [c |-> [c EXCEPT !.misses = @ + 1], ret |-> Null]
    ELSE LET entry == EntryOf(c.cache, key)
         IN  IF isExpired(entry, t)
             THEN [c |-> [updateMemoryUsage([c EXCEPT !.cache = MapDelete(@, key)],
                                            entry, "delete")
                            EXCEPT !.misses = @ + 1],
                   ret |-> Null]
             ELSE [c |-> [c EXCEPT !.cache = Append(MapDelete(@, key), entry),
                                   !.hits = @ + 1],
                   ret |-> entry.value]

hasCacheTouch(c, key, t) ==
    IF key \notin KeysOf(c.cache)
    THEN [c |-> c, ret |-> FALSE]
    ELSE IF isExpired(EntryOf(c.cache, key), t)
         THEN [c |-> [c EXCEPT !.cache = MapDelete(@, key)], ret |-> FALSE]
         ELSE [c |-> [c EXCEPT !.cache = Append(MapDelete(@, key), EntryOf(c.cache, key))],
               ret |-> TRUE]

\* has(key): deletes an expired entry without touching the memory counter
hasCache(c, key, t) ==
    IF key \notin KeysOf(c.cache)
    THEN [c |-> c, ret |-> FALSE]
    ELSE IF isExpired(EntryOf(c.cache, key), t)
         THEN [c |-> [c EXCEPT !.cache = MapDelete(@, key)], ret |-> FALSE]
         ELSE [c |-> c, ret |-> TRUE]

deleteCache(c, key) ==
    IF key \in KeysOf(c.cache)
    THEN [c |-> updateMemoryUsage([c EXCEPT !.cache = MapDelete(@, key)],
                                  EntryOf(c.cache, key), "delete"),
          ret |-> TRUE]
    ELSE [c |-> c, ret |-> FALSE]

resetMetrics(c) ==
    [c EXCEPT !.hits = 0, !.misses = 0, !.evictions = 0, !.cleanups = 0,
              !.currentMemoryUsage = 0]

clearCache(c) == resetMetrics([c EXCEPT !.cache = <<>>])

\* ---- bookkeeping of the last call
Touch(r, key) == Append(SelectSeq(r, LAMBDA k : k # key), key)

\* the keys that were stored before a call and are not stored after it
Removed(before, after, key) == KeysOf(before) \ KeysOf(after)

\* the value and ttl arguments of a set call; NoArg for the other calls
NoArg == [value |-> Null, ttl |-> NoTTL]

OpRecord(op, key, retVal, retBool, removed) ==
    [op |-> op, key |-> key, retVal |-> retVal, retBool |-> retBool, removed |-> removed,
     arg |-> NoArg]

NoKey == "-"
NoOp == [op |-> "none", key |-> NoKey, retVal |-> Null, retBool |-> FALSE, removed |-> {},
         arg |-> NoArg]

\* least recently used key among the stored ones, by the history of calls
LruKey == IF cache = <<>> THEN NoKey
          ELSE LET live == SelectSeq(recency, LAMBDA k : k \in KeysOf(cache))
               IN  IF live = <<>> THEN NoKey ELSE Head(live)

CacheConfigUnchanged == UNCHANGED <<maxSize, defaultTTL, memoryThreshold>>

CacheCall == cacheOps < MaxCacheOps /\ cacheOps' = cacheOps + 1 /\ UNCHANGED now
             /\ CacheConfigUnchanged /\ UNCHANGED <<cbVars, auxVars>>

Set(key, value, ttlArg) ==
    /\ CacheCall
    /\ \E c \in {setCache(CacheObj, key, value, ttlArg, now)} :
           /\ Install(c)
           /\ lastOp' = [OpRecord("set", key, Null, FALSE,
                                  Removed(cache, c.cache, key))
                           EXCEPT !.arg = [value |-> value, ttl |-> ttlArg]]
    /\ recency' = Touch(recency, key)

Get(key) ==
    /\ CacheCall
    /\ \E r \in {getCache(CacheObj, key, now)} :
           /\ Install(r.c)
           /\ lastOp' = OpRecord("get", key, r.ret, r.ret # Null,
                                 Removed(cache, r.c.cache, key))
           /\ recency' = IF r.ret # Null THEN Touch(recency, key) ELSE recency

Has(key) ==
    /\ CacheCall
    /\ \E r \in {hasCache(CacheObj, key, now)} :
           /\ Install(r.c)
           /\ lastOp' = OpRecord("has", key, Null, r.ret,
                                 Removed(cache, r.c.cache, key))
    /\ UNCHANGED recency

Delete(key) ==
    /\ CacheCall
    /\ \E r \in {deleteCache(CacheObj, key)} :
           /\ Install(r.c)
           /\ lastOp' = OpRecord("delete", key, Null, r.ret,
                                 Removed(cache, r.c.cache, key))
    /\ UNCHANGED recency

\* cleanup(), called by the caller or by the cleanup timer
Cleanup ==
    /\ CacheCall
    /\ \E c \in {cleanup(CacheObj, now)} :
           /\ Install(c)
           /\ lastOp' = OpRecord("cleanup", NoKey, Null, FALSE,
                                 Removed(cache, c.cache, NoKey))
    /\ UNCHANGED recency

Clear ==
    /\ CacheCall
    /\ \E c \in {clearCache(CacheObj)} :
           /\ Install(c)
           /\ lastOp' = OpRecord("clear", NoKey, Null, FALSE,
                                 Removed(cache, c.cache, NoKey))
    /\ UNCHANGED recency

\* the clock advances between two calls
CacheTick ==
    /\ Tick
    /\ lastOp' = OpRecord("tick", NoKey, Null, FALSE, {})
    /\ UNCHANGED <<cache, maxSize, defaultTTL, memoryThreshold, hits, misses, evictions,
                   cleanups, currentMemoryUsage, cacheOps, recency, cbVars, auxVars>>

(***************************************************************************)
(* CircuitBreaker                                                          *)
(***************************************************************************)
\* Rational numbers [num, den] in lowest terms: currentTimeout is multiplied
\* and divided by backoffMultiplier, so it need not stay an integer.
RECURSIVE GCD(_, _)
GCD(a, b) == IF b = 0 THEN a ELSE GCD(b, a % b)
Abs(a) == IF a < 0 THEN -a ELSE a
Norm(n, d) == LET g == GCD(Abs(n), d) IN [num |-> n \div g, den |-> d \div g]
RInt(i) == [num |-> i, den |-> 1]
RMulInt(q, m) == Norm(q.num * m, q.den)
RDivInt(q, m) == Norm(q.num, q.den * m)
RSubInt(q, i) == Norm(q.num - i * q.den, q.den)
RLeq(p, q) == p.num * q.den <= q.num * p.den
RLess(p, q) == p.num * q.den < q.num * p.den
RMin(p, q) == IF RLeq(p, q) THEN p ELSE q
RMax(p, q) == IF RLeq(q, p) THEN p ELSE q
\* a field that is not set (undefined)
Undefined == [num |-> 0, den |-> 0]

NoTime == -1

CLOSED == "CLOSED"
OPEN == "OPEN"
HALF_OPEN == "HALF_OPEN"
CircuitBreakerState == {CLOSED, OPEN, HALF_OPEN}

BreakerObj ==
    [state |-> state, failureCount |-> failureCount, successCount |-> successCount,
     consecutiveSuccesses |-> consecutiveSuccesses, totalRequests |-> totalRequests,
     totalFailures |-> totalFailures, totalSuccesses |-> totalSuccesses,
     lastFailureTime |-> lastFailureTime, lastSuccessTime |-> lastSuccessTime,
     currentTimeout |-> currentTimeout, stateChangedAt |-> stateChangedAt,
     failures |-> failures]

InstallBreaker(b) ==
    /\ state' = b.state
    /\ failureCount' = b.failureCount
    /\ successCount' = b.successCount
    /\ consecutiveSuccesses' = b.consecutiveSuccesses
    /\ totalRequests' = b.totalRequests
    /\ totalFailures' = b.totalFailures
    /\ totalSuccesses' = b.totalSuccesses
    /\ lastFailureTime' = b.lastFailureTime
    /\ lastSuccessTime' = b.lastSuccessTime
    /\ currentTimeout' = b.currentTimeout
    /\ stateChangedAt' = b.stateChangedAt
    /\ failures' = b.failures

\* the fields set by the field initialisers and the constructor, at time t
NewBreaker(cfg, t) ==
    [state |-> CLOSED, failureCount |-> 0, successCount |-> 0,
     consecutiveSuccesses |-> 0, totalRequests |-> 0, totalFailures |-> 0,
     totalSuccesses |-> 0, lastFailureTime |-> NoTime, lastSuccessTime |-> NoTime,
     currentTimeout |-> RInt(cfg.timeout), stateChangedAt |-> t, failures |-> <<>>]

transitionToOpenUncapped(b, t) ==
    [b EXCEPT !.state = OPEN, !.stateChangedAt = t, !.successCount = 0,
              !.currentTimeout = RMulInt(@, config.backoffMultiplier)]
transitionToOpenNoBackoff(b, t) ==
    [b EXCEPT !.state = OPEN, !.stateChangedAt = t, !.successCount = 0]
transitionToOpen(b, t) ==
    [b EXCEPT !.state = OPEN, !.stateChangedAt = t, !.successCount = 0,
              !.currentTimeout = RMin(RMulInt(@, config.backoffMultiplier),
                                      RInt(config.maxTimeout))]

transitionToHalfOpen(b, t) ==
    [b EXCEPT !.state = HALF_OPEN, !.stateChangedAt = t, !.successCount = 0]

transitionToClosedFullReset(b, t) ==
    [b EXCEPT !.state = CLOSED, !.stateChangedAt = t, !.failureCount = 0,
              !.successCount = 0, !.currentTimeout = RInt(config.timeout)]
transitionToClosed(b, t) ==
    [b EXCEPT !.state = CLOSED, !.stateChangedAt = t, !.failureCount = 0,
              !.successCount = 0,
              !.currentTimeout = RMax(RInt(config.timeout),
                                      RDivInt(@, config.backoffMultiplier))]

cleanupOldFailures(b, t) ==
    LET cutoffTime == t - config.monitoringPeriod
        kept == SelectSeq(b.failures, LAMBDA timestamp : timestamp > cutoffTime)
    IN  [b EXCEPT !.failures = kept, !.failureCount = Len(kept)]

\* shouldAllowRequest(): the breaker after the call and the returned boolean
shouldAllowRequestBaseTimeout(b, t) ==
    CASE b.state = CLOSED -> [b |-> b, allowed |-> TRUE]
      [] b.state = OPEN ->
            IF t - b.stateChangedAt >= config.timeout
            THEN [b |-> transitionToHalfOpen(b, t), allowed |-> TRUE]
            ELSE [b |-> b, allowed |-> FALSE]
      [] b.state = HALF_OPEN ->
            [b |-> b, allowed |-> b.successCount < config.successThreshold]
shouldAllowRequestLate(b, t) ==
    CASE b.state = CLOSED -> [b |-> b, allowed |-> TRUE]
      [] b.state = OPEN ->
            IF RLess(b.currentTimeout, RInt(t - b.stateChangedAt))
            THEN [b |-> transitionToHalfOpen(b, t), allowed |-> TRUE]
            ELSE [b |-> b, allowed |-> FALSE]
      [] b.state = HALF_OPEN ->
            [b |-> b, allowed |-> b.successCount < config.successThreshold]
shouldAllowRequest(b, t) ==
    CASE b.state = CLOSED -> [b |-> b, allowed |-> TRUE]
      [] b.state = OPEN ->
            IF RLeq(b.currentTimeout, RInt(t - b.stateChangedAt))
            THEN [b |-> transitionToHalfOpen(b, t), allowed |-> TRUE]
            ELSE [b |-> b, allowed |-> FALSE]
      [] b.state = HALF_OPEN ->
            [b |-> b, allowed |-> b.successCount < config.successThreshold]

onSuccessLateClose(b, t) ==
    LET b1 == [b EXCEPT !.lastSuccessTime = t,
                        !.totalSuccesses = @ + 1,
                        !.consecutiveSuccesses = @ + 1,
                        !.failureCount = Max(0, @ - 1)]
    IN  CASE b1.state = HALF_OPEN ->
               LET b2 == [b1 EXCEPT !.successCount = @ + 1]
               IN  IF b2.successCount > config.successThreshold
                   THEN transitionToClosed(b2, t)
                   ELSE b2
          [] b1.state = CLOSED ->
               IF b1.consecutiveSuccesses >= config.resetThreshold
               THEN [b1 EXCEPT !.currentTimeout = RInt(config.timeout)]
               ELSE b1
          [] OTHER -> b1

onSuccess(b, t) ==
    LET b1 == [b EXCEPT !.lastSuccessTime = t,
                        !.totalSuccesses = @ + 1,
                        !.consecutiveSuccesses = @ + 1,
                        !.failureCount = Max(0, @ - 1)]
    IN  CASE b1.state = HALF_OPEN ->
               LET b2 == [b1 EXCEPT !.successCount = @ + 1]
               IN  IF b2.successCount >= config.successThreshold
                   THEN transitionToClosed(b2, t)
                   ELSE b2
          [] b1.state = CLOSED ->
               IF b1.consecutiveSuccesses >= config.resetThreshold
               THEN [b1 EXCEPT !.currentTimeout = RInt(config.timeout)]
               ELSE b1
          [] OTHER -> b1

onFailureHalfOpenTolerant(b, t) ==
    LET b1 == [b EXCEPT !.lastFailureTime = t,
                        !.totalFailures = @ + 1,
                        !.failureCount = @ + 1,
                        !.consecutiveSuccesses = 0,
                        !.failures = Append(@, t)]
    IN  IF b1.state \in {CLOSED, HALF_OPEN} /\ b1.failureCount >= config.failureThreshold
        THEN transitionToOpen(b1, t)
        ELSE b1
onFailureOffByOne(b, t) ==
    LET b1 == [b EXCEPT !.lastFailureTime = t,
                        !.totalFailures = @ + 1,
                        !.failureCount = @ + 1,
                        !.consecutiveSuccesses = 0,
                        !.failures = Append(@, t)]
    IN  CASE b1.state = CLOSED ->
               IF b1.failureCount > config.failureThreshold
               THEN transitionToOpen(b1, t)
               ELSE b1
          [] b1.state = HALF_OPEN -> transitionToOpen(b1, t)
          [] OTHER -> b1
onFailure(b, t) ==
    LET b1 == [b EXCEPT !.lastFailureTime = t,
                        !.totalFailures = @ + 1,
                        !.failureCount = @ + 1,
                        !.consecutiveSuccesses = 0,
                        !.failures = Append(@, t)]
    IN  CASE b1.state = CLOSED ->
               IF b1.failureCount >= config.failureThreshold
               THEN transitionToOpen(b1, t)
               ELSE b1
          [] b1.state = HALF_OPEN -> transitionToOpen(b1, t)
          [] OTHER -> b1

getRetryAfter(b, t) ==
    IF b.state # OPEN THEN RInt(0)
    ELSE LET timeElapsed == t - b.stateChangedAt
         IN  RMax(RInt(0), RSubInt(b.currentTimeout, timeElapsed))

reset(b, t) == NewBreaker(config, t)

forceState(b, s, t) ==
    LET b1 == [b EXCEPT !.state = s, !.stateChangedAt = t]
    IN  IF s = HALF_OPEN THEN [b1 EXCEPT !.successCount = 0] ELSE b1

\* ---- execute(operation)
\* what the wrapped operation does: it resolves, or it throws / rejects with
\* an Error, with a string, or with an object that String() cannot convert
\* (Object.create(null)), for which String(error) throws a TypeError
ThrownKinds == {"Error", "string", "nullProtoObject"}
Outcomes == {"success"} \cup ThrownKinds

\* error instanceof Error ? error : new Error(String(error))
toError(thrown) ==
    CASE thrown = "Error" -> "error"
      [] thrown = "string" -> "error"
      [] OTHER -> "TypeError thrown"

CallIds == {"c1", "c2"}

NoResult == [allowed |-> FALSE, outcome |-> "none", state |-> CLOSED,
             retryAfter |-> Undefined, currentFailures |-> 0, currentSuccesses |-> 0]
\* episode: the call is in flight and was admitted in the HALF_OPEN episode
\* the breaker is in (an episode lasts from one change of state to the next)
IdleCall == [pc |-> "idle", invoked |-> 0, res |-> NoResult, episode |-> FALSE]

\* a change of state, reset() and forceState() end the episode: the calls in
\* flight were admitted before the new one
Overridden(cs) == [c \in CallIds |-> [cs[c] EXCEPT !.episode = FALSE]]

\* the calls after a step that leaves the breaker as b
Carry(cs, b) ==
    IF b.state = state /\ b.stateChangedAt = stateChangedAt THEN cs ELSE Overridden(cs)

\* the CircuitBreakerResult built from the breaker's fields
Result(b, allowed, outcome, retryAfter) ==
    [allowed |-> allowed, outcome |-> outcome, state |-> b.state,
     retryAfter |-> retryAfter, currentFailures |-> b.failureCount,
     currentSuccesses |-> b.successCount]

\* a result lives in the state that follows the step returning it; the next
\* step finds the slot free again
Settled(cs) == [c \in CallIds |->
                  IF cs[c].pc \in {"returned", "rejected"} THEN IdleCall ELSE cs[c]]

\* call slots are interchangeable: a new call takes the first free one
FreeSlot(c) == /\ calls[c].pc # "running"
               /\ c = "c2" => calls["c1"].pc = "running"

NoCall == "-"
CbStep(op, c, arg) == [op |-> op, call |-> c, arg |-> arg]

CbFrame == UNCHANGED <<config, cacheVars, auxVars>>
CbCall == cbOps < MaxCbOps /\ cbOps' = cbOps + 1 /\ UNCHANGED now /\ CbFrame

\* execute up to the await: count, clean up, admit or reject, invoke operation
ExecuteBegin(c) ==
    /\ FreeSlot(c)
    /\ \E r \in {shouldAllowRequest(
                    cleanupOldFailures([BreakerObj EXCEPT !.totalRequests = @ + 1], now),
                    now)} :
           /\ InstallBreaker(r.b)
           /\ IF r.allowed
              THEN calls' = [Carry(Settled(calls), r.b) EXCEPT ![c] =
                               [pc |-> "running", invoked |-> 1, res |-> NoResult,
                                episode |-> r.b.state = HALF_OPEN]]
              ELSE calls' = [Settled(calls) EXCEPT ![c] =
                               [pc |-> "returned", invoked |-> 0, episode |-> FALSE,
                                res |-> Result(r.b, FALSE, "none",
                                               getRetryAfter(r.b, now))]]
           /\ lastCb' = CbStep("execute", c, IF r.allowed THEN "admitted" ELSE "rejected")

ExecuteStart(c) == CbCall /\ ExecuteBegin(c)

\* the awaited operation settles and execute runs to its end
ExecuteComplete(c, outcome) ==
    /\ calls[c].pc = "running"
    /\ UNCHANGED <<now, cbOps>> /\ CbFrame
    /\ IF outcome = "success"
       THEN \E b \in {onSuccess(BreakerObj, now)} :
                /\ InstallBreaker(b)
                /\ calls' = [Carry(Settled(calls), b) EXCEPT
                                ![c].pc = "returned", ![c].episode = FALSE,
                                ![c].res = Result(b, TRUE, "result", Undefined)]
       ELSE \E b \in {onFailure(BreakerObj, now)} :
                /\ InstallBreaker(b)
                /\ IF toError(outcome) = "error"
                   THEN calls' = [Carry(Settled(calls), b) EXCEPT
                                     ![c].pc = "returned", ![c].episode = FALSE,
                                     ![c].res = Result(b, TRUE, "error", Undefined)]
                   ELSE calls' = [Carry(Settled(calls), b) EXCEPT
                                     ![c].pc = "rejected", ![c].episode = FALSE]
    /\ lastCb' = CbStep("complete", c, outcome)

\* a direct call of the public shouldAllowRequest()
ShouldAllowRequest ==
    /\ CbCall
    /\ \E r \in {shouldAllowRequest(BreakerObj, now)} :
           /\ InstallBreaker(r.b)
           /\ lastCb' = CbStep("shouldAllowRequest", NoCall,
                               IF r.allowed THEN "admitted" ELSE "rejected")
           /\ calls' = Carry(Settled(calls), r.b)

Reset ==
    /\ CbCall
    /\ InstallBreaker(reset(BreakerObj, now))
    /\ lastCb' = CbStep("reset", NoCall, "-")
    /\ calls' = Overridden(Settled(calls))

ForceState(s) ==
    /\ CbCall
    /\ InstallBreaker(forceState(BreakerObj, s, now))
    /\ lastCb' = CbStep("forceState", NoCall, s)
    /\ calls' = Overridden(Settled(calls))

\* getState() and getMetrics() read the fields and change none
GetMetrics ==
    /\ CbCall
    /\ UNCHANGED breakerVars
    /\ calls' = Settled(calls)
    /\ lastCb' = CbStep("getMetrics", NoCall, state)

ClockStep ==
    /\ now' = now + 1
    /\ calls' = Settled(calls)
    /\ lastCb' = CbStep("tick", NoCall, "-")
    /\ UNCHANGED <<cacheVars, auxVars, config, breakerVars, cbOps>>

CbTick == now < MaxCbTime /\ ClockStep

\* ---- awaited calls: the caller awaits each execute before the next call
SeqCall == cbOps < MaxSeqOps /\ cbOps' = cbOps + 1 /\ UNCHANGED now /\ CbFrame

AwaitedExecuteStart ==
    /\ SeqCall
    /\ \A c \in CallIds : calls[c].pc # "running"
    /\ ExecuteBegin("c1")

SeqTick == now < MaxSeqTime /\ ClockStep

(***************************************************************************)
(* SlidingWindowRateLimiter                                                *)
(***************************************************************************)
Identifiers == {"A", "B"}

Min(a, b) == IF a <= b THEN a ELSE b

\* constructor: the defaults of the burst fields, overridden by the config
\* given; burstSize = Math.ceil(maxRequests * 0.1),
\* burstWindowMs = Math.min(windowMs * 10, 600000)
BurstWindowCap == 600000
RateLimitConfig(maxRequests, periodMs, windowMs) ==
    [maxRequests |-> maxRequests, periodMs |-> periodMs, windowMs |-> windowMs,
     burstSize |-> (maxRequests + 9) \div 10,
     burstWindowMs |-> Min(windowMs * 10, BurstWindowCap)]

\* the constructor throws 'Period must be at least one window duration'
RateLimiterConstructorThrows(cfg) == cfg.periodMs < cfg.windowMs

EmptyWindows == [k \in {} |-> 0]

getWindowKeyCeil(cfg, timestamp) ==
    ((timestamp + cfg.windowMs - 1) \div cfg.windowMs) * cfg.windowMs

\* Math.floor(timestamp / windowMs) * windowMs
getWindowKey(cfg, timestamp) == (timestamp \div cfg.windowMs) * cfg.windowMs

cleanupExpiredWindowsInclusive(w, cfg, t) ==
    LET cutoffTime == t - cfg.periodMs
    IN  [k \in {x \in DOMAIN w : ~(x <= cutoffTime)} |-> w[k]]

\* deletes every window whose key is below now - periodMs
cleanupExpiredWindows(w, cfg, t) ==
    LET cutoffTime == t - cfg.periodMs
    IN  [k \in {x \in DOMAIN w : ~(x < cutoffTime)} |-> w[k]]

RECURSIVE SumOver(_, _)
SumOver(w, ks) ==
    IF ks = {} THEN 0
    ELSE LET k == CHOOSE x \in ks : TRUE IN w[k] + SumOver(w, ks \ {k})

getCurrentUsage(w) == SumOver(w, DOMAIN w)

getResetTime(cfg, t) ==
    LET oldestAllowedWindow == t - cfg.periodMs + cfg.windowMs
    IN  oldestAllowedWindow + cfg.periodMs

\* SlidingWindowRateLimiter.getRetryAfter(now)
limiterGetRetryAfter(w, cfg, t) ==
    LET nonEmpty == {k \in DOMAIN w : w[k] > 0}
    IN  IF nonEmpty = {} THEN cfg.windowMs
        ELSE LET oldestWindow == CHOOSE k \in nonEmpty : \A j \in nonEmpty : k <= j
                 expiryTime == oldestWindow + cfg.periodMs
             IN  Max(0, expiryTime - t)

\* retryAfter: undefined of an allowed call
UndefinedRetryAfter == -1

NoRateLimitResult == [allowed |-> FALSE, remaining |-> 0, limit |-> 0, resetTime |-> 0,
                      windowStart |-> 0, retryAfter |-> UndefinedRetryAfter]

checkLimitBurst(w, cfg, t, consume) ==
    LET currentWindow == getWindowKey(cfg, t)
        w1 == cleanupExpiredWindows(w, cfg, t)
        currentUsage == getCurrentUsage(w1)
        currentCount == IF currentWindow \in DOMAIN w1 THEN w1[currentWindow] ELSE 0
        allowed == currentUsage < cfg.maxRequests /\ currentCount < cfg.burstSize
        w2 == IF allowed /\ consume
              THEN [k \in DOMAIN w1 \cup {currentWindow} |->
                      IF k = currentWindow THEN currentCount + 1 ELSE w1[k]]
              ELSE w1
        remaining == Max(0, cfg.maxRequests - currentUsage
                              - (IF consume /\ allowed THEN 1 ELSE 0))
    IN  [windows |-> w2,
         usage |-> currentUsage,
         res |-> [allowed |-> allowed, remaining |-> remaining,
                  limit |-> cfg.maxRequests, resetTime |-> getResetTime(cfg, t),
                  windowStart |-> currentWindow,
                  retryAfter |-> IF allowed THEN UndefinedRetryAfter
                                 ELSE limiterGetRetryAfter(w2, cfg, t)]]

\* checkLimit(_identifier, consume): the window table it leaves, the usage it
\* computed and the RateLimitResult it returns
checkLimit(w, cfg, t, consume) ==
    LET currentWindow == getWindowKey(cfg, t)
        w1 == cleanupExpiredWindows(w, cfg, t)
        currentUsage == getCurrentUsage(w1)
        allowed == currentUsage < cfg.maxRequests
        currentCount == IF currentWindow \in DOMAIN w1 THEN w1[currentWindow] ELSE 0
        w2 == IF allowed /\ consume
              THEN [k \in DOMAIN w1 \cup {currentWindow} |->
                      IF k = currentWindow THEN currentCount + 1 ELSE w1[k]]
              ELSE w1
        remaining == Max(0, cfg.maxRequests - currentUsage
                              - (IF consume /\ allowed THEN 1 ELSE 0))
    IN  [windows |-> w2,
         usage |-> currentUsage,
         res |-> [allowed |-> allowed, remaining |-> remaining,
                  limit |-> cfg.maxRequests, resetTime |-> getResetTime(cfg, t),
                  windowStart |-> currentWindow,
                  retryAfter |-> IF allowed THEN UndefinedRetryAfter
                                 ELSE limiterGetRetryAfter(w2, cfg, t)]]

\* oldestWindow / newestWindow: null when there is no window
NullWindow == -1

getStats(w, cfg) ==
    [currentUsage |-> getCurrentUsage(w), maxRequests |-> cfg.maxRequests,
     activeWindows |-> Cardinality(DOMAIN w),
     oldestWindow |-> IF DOMAIN w = {} THEN NullWindow
                      ELSE CHOOSE k \in DOMAIN w : \A j \in DOMAIN w : k <= j,
     newestWindow |-> IF DOMAIN w = {} THEN NullWindow
                      ELSE CHOOSE k \in DOMAIN w : \A j \in DOMAIN w : k >= j]

NoStats == [currentUsage |-> 0, maxRequests |-> 0, activeWindows |-> 0,
            oldestWindow |-> NullWindow, newestWindow |-> NullWindow]

RlRecord(op, identifier, consume, usage, res, stats) ==
    [op |-> op, identifier |-> identifier, consume |-> consume, at |-> now,
     usage |-> usage, res |-> res, stats |-> stats]

NoRlCall == [op |-> "none", identifier |-> "-", consume |-> FALSE, at |-> 0,
             usage |-> 0, res |-> NoRateLimitResult, stats |-> NoStats]

RlCall == rlOps < MaxRlOps /\ rlOps' = rlOps + 1
          /\ UNCHANGED <<now, rlConfig, cacheVars, cbVars, monVars, extVars>>

CheckLimitPerIdentifier(identifier, consume) ==
    /\ RlCall
    /\ \E r \in {checkLimit(IF identifier = "A" THEN windows ELSE EmptyWindows,
                             rlConfig, now, consume)} :
           /\ windows' = IF identifier = "A" THEN r.windows ELSE windows
           /\ consumed' = IF r.res.allowed /\ consume
                          THEN Append(consumed, now) ELSE consumed
           /\ lastRl' = RlRecord("checkLimit", identifier, consume, r.usage, r.res, NoStats)

CheckLimit(identifier, consume) ==
    /\ RlCall
    /\ \E r \in {checkLimit(windows, rlConfig, now, consume)} :
           /\ windows' = r.windows
           /\ consumed' = IF r.res.allowed /\ consume
                          THEN Append(consumed, now) ELSE consumed
           /\ lastRl' = RlRecord("checkLimit", identifier, consume, r.usage, r.res, NoStats)

GetStats ==
    /\ RlCall
    /\ UNCHANGED <<windows, consumed>>
    /\ lastRl' = RlRecord("getStats", "-", FALSE, 0, NoRateLimitResult,
                          getStats(windows, rlConfig))

RlReset ==
    /\ RlCall
    /\ windows' = EmptyWindows
    /\ consumed' = <<>>
    /\ lastRl' = RlRecord("reset", "-", FALSE, 0, NoRateLimitResult, NoStats)

\* the clock advances between two calls; the last call stays the last call
RlTick ==
    /\ now < MaxRlTime
    /\ now' = now + 1
    /\ UNCHANGED <<cacheVars, cbVars, auxVars>>

\* the limiter of a specification that does not use it
RlIdle ==
    /\ rlConfig = RateLimitConfig(1, 1, 1)
    /\ windows = EmptyWindows
    /\ consumed = <<>>
    /\ rlOps = 0
    /\ lastRl = NoRlCall

(***************************************************************************)
(* ApiMonitor                                                              *)
(***************************************************************************)
\* MonitoringEventType
RATE_LIMIT_WARNING == "rate_limit_warning"
RATE_LIMIT_EXCEEDED == "rate_limit_exceeded"
CIRCUIT_BREAKER_OPENED == "circuit_breaker_opened"
CIRCUIT_BREAKER_CLOSED == "circuit_breaker_closed"
CIRCUIT_BREAKER_HALF_OPEN == "circuit_breaker_half_open"
API_ERROR == "api_error"
PERFORMANCE_WARNING == "performance_warning"
METRICS_SUMMARY == "metrics_summary"

\* AlertSeverity
INFO == "info"
WARNING == "warning"
ERROR == "error"
CRITICAL == "critical"

\* sources of alerts
RATE_LIMITER == "rate_limiter"
CIRCUIT_BREAKER == "circuit_breaker"
API_CLIENT == "api_client"
Sources == {RATE_LIMITER, CIRCUIT_BREAKER, API_CLIENT}

\* time spans written into the code, in milliseconds
FiveMinutes == 300000
OneMinute == 60000
OneDay == 24 * 60 * 60 * 1000
RollingWindowSize == 100
CleanupEvery == 100
MinSampleSize == 10

\* the monitor object: the fields that calls change
MonObj == [alerts |-> alerts, emitted |-> emitted, apiMetrics |-> apiMetrics,
           requestTimes |-> requestTimes, metricsTimer |-> metricsTimer]

InstallMonitor(m) ==
    /\ alerts' = m.alerts
    /\ emitted' = m.emitted
    /\ apiMetrics' = m.apiMetrics
    /\ requestTimes' = m.requestTimes
    /\ metricsTimer' = m.metricsTimer

\* a MonitoringAlert: of details only the identifier is read back by the
\* monitor; id and message are not
Alert(type, severity, source, identifier, t) ==
    [timestamp |-> t, type |-> type, severity |-> severity, source |-> source,
     identifier |-> identifier, resolved |-> FALSE, resolvedAt |-> NoTime]

\* an event handed to emit(alert.type, alert) and to emit('alert', alert)
Event(type, source, identifier, t) ==
    [type |-> type, source |-> source, identifier |-> identifier, timestamp |-> t]

NoIdentifier == "-"

RECURSIVE SelectAlerts(_, _, _)
\* Array.prototype.filter with the set of indices to keep
SelectAlerts(as, keep, i) ==
    IF i > Len(as) THEN <<>>
    ELSE (IF i \in keep THEN <<as[i]>> ELSE <<>>) \o SelectAlerts(as, keep, i + 1)

RECURSIVE InsertDesc(_, _)
\* stable insertion behind every element whose timestamp is not smaller
InsertDesc(sorted, a) ==
    IF sorted = <<>> THEN <<a>>
    ELSE IF Head(sorted).timestamp >= a.timestamp
         THEN <<Head(sorted)>> \o InsertDesc(Tail(sorted), a)
         ELSE <<a>> \o sorted

RECURSIVE SortNewestFirst(_, _)
\* alerts.sort((a, b) => b.timestamp - a.timestamp), a stable sort
SortNewestFirst(as, i) ==
    IF i = 0 THEN <<>> ELSE InsertDesc(SortNewestFirst(as, i - 1), as[i])

\* cleanupAlerts(): drops alerts of 24 hours ago or older and resolved alerts
\* without a recent resolvedAt, then keeps the newest maxStoredAlerts
cleanupAlerts(m, cfg, t) ==
    LET cutoffTime == t - OneDay
        keep == {i \in 1..Len(m.alerts) :
                   /\ \/ ~m.alerts[i].resolved
                      \/ /\ m.alerts[i].resolvedAt # NoTime
                         /\ m.alerts[i].resolvedAt # 0
                         /\ m.alerts[i].resolvedAt > cutoffTime
                   /\ m.alerts[i].timestamp > cutoffTime}
        kept == SelectAlerts(m.alerts, keep, 1)
    IN  IF Len(kept) > cfg.maxStoredAlerts
        THEN [m EXCEPT !.alerts = SubSeq(SortNewestFirst(kept, Len(kept)),
                                         1, cfg.maxStoredAlerts)]
        ELSE [m EXCEPT !.alerts = kept]

createAlertDeduplicated(m, cfg, type, severity, source, identifier, t) ==
    IF ~cfg.enabled
       \/ \E i \in 1..Len(m.alerts) :
             m.alerts[i].type = type /\ t - m.alerts[i].timestamp < cfg.alertAggregationWindow
    THEN m
    ELSE [m EXCEPT !.alerts = Append(@, Alert(type, severity, source, identifier, t)),
                   !.emitted = IF cfg.enableEventEmission
                               THEN Append(@, Event(type, source, identifier, t)) ELSE @]

\* createAlert(alertData): stores the alert, emits it, and cleans up when the
\* number of stored alerts is a multiple of 100
createAlert(m, cfg, type, severity, source, identifier, t) ==
    IF ~cfg.enabled THEN m
    ELSE LET m1 == [m EXCEPT
                      !.alerts = Append(@, Alert(type, severity, source, identifier, t)),
                      !.emitted = IF cfg.enableEventEmission
                                  THEN Append(@, Event(type, source, identifier, t)) ELSE @]
         IN  IF Len(m1.alerts) % CleanupEvery = 0 THEN cleanupAlerts(m1, cfg, t) ELSE m1

isRecentAlertInclusive(m, cfg, type, t) ==
    \E i \in 1..Len(m.alerts) :
        m.alerts[i].type = type /\ t - m.alerts[i].timestamp <= cfg.alertAggregationWindow

isRecentAlert(m, cfg, type, t) ==
    \E i \in 1..Len(m.alerts) :
        m.alerts[i].type = type /\ t - m.alerts[i].timestamp < cfg.alertAggregationWindow

\* monitorRateLimit(identifier, result)
monitorRateLimit(m, cfg, identifier, result, t) ==
    IF ~cfg.enabled THEN m
    ELSE LET \* usagePercentage >= rateLimitWarningThreshold, without the division
             warn == (result.limit - result.remaining) * 100
                        >= cfg.rateLimitWarningThreshold * result.limit
             m1 == IF warn
                   THEN createAlert(m, cfg, RATE_LIMIT_WARNING, WARNING, RATE_LIMITER,
                                    identifier, t)
                   ELSE m
         IN  IF ~result.allowed
             THEN createAlert(m1, cfg, RATE_LIMIT_EXCEEDED, ERROR, RATE_LIMITER,
                              identifier, t)
             ELSE m1

\* marks the unresolved opened alerts of the identifier as resolved
ResolveOpenAlerts(as, identifier, t) ==
    [i \in 1..Len(as) |->
        IF /\ as[i].type = CIRCUIT_BREAKER_OPENED
           /\ ~as[i].resolved
           /\ as[i].identifier = identifier
        THEN [as[i] EXCEPT !.resolved = TRUE, !.resolvedAt = t]
        ELSE as[i]]

\* monitorCircuitBreaker(identifier, metrics)
monitorCircuitBreaker(m, cfg, identifier, metrics, t) ==
    IF ~cfg.enabled THEN m
    ELSE LET \* failureRate >= circuitBreakerFailureThreshold, without the division
             highFailureRate ==
                 IF metrics.totalRequests > 0
                 THEN metrics.totalFailures * 100
                        >= cfg.circuitBreakerFailureThreshold * metrics.totalRequests
                 ELSE 0 >= cfg.circuitBreakerFailureThreshold
             hasOpenAlerts == \E i \in 1..Len(m.alerts) :
                                 /\ m.alerts[i].type = CIRCUIT_BREAKER_OPENED
                                 /\ ~m.alerts[i].resolved
                                 /\ m.alerts[i].identifier = identifier
             m1 == CASE metrics.state = OPEN ->
                          IF ~isRecentAlert(m, cfg, CIRCUIT_BREAKER_OPENED, t)
                          THEN createAlert(m, cfg, CIRCUIT_BREAKER_OPENED, CRITICAL,
                                           CIRCUIT_BREAKER, identifier, t)
                          ELSE m
                     [] metrics.state = HALF_OPEN ->
                          createAlert(m, cfg, CIRCUIT_BREAKER_HALF_OPEN, WARNING,
                                      CIRCUIT_BREAKER, identifier, t)
                     [] OTHER ->
                          IF hasOpenAlerts
                          THEN LET c == createAlert(m, cfg, CIRCUIT_BREAKER_CLOSED, INFO,
                                                    CIRCUIT_BREAKER, identifier, t)
                               IN  [c EXCEPT !.alerts = ResolveOpenAlerts(@, identifier, t)]
                          ELSE m
         IN  IF /\ highFailureRate
                /\ metrics.totalRequests >= MinSampleSize
                /\ ~isRecentAlert(m1, cfg, PERFORMANCE_WARNING, t)
             THEN createAlert(m1, cfg, PERFORMANCE_WARNING, WARNING, CIRCUIT_BREAKER,
                              identifier, t)
             ELSE m1

RECURSIVE SumSeq(_, _)
SumSeq(s, i) == IF i = 0 THEN 0 ELSE s[i] + SumSeq(s, i - 1)

InitialApiMetrics ==
    [totalRequests |-> 0, successfulRequests |-> 0, failedRequests |-> 0,
     averageResponseTime |-> RInt(0), lastRequestTime |-> NoTime,
     lastErrorTime |-> NoTime, errorRate |-> RInt(0), requestsPerMinute |-> 0]

\* monitorApiRequest(duration, success, endpoint)
monitorApiRequest(m, cfg, duration, success, t) ==
    IF ~cfg.enabled THEN m
    ELSE LET pushed == Append(m.requestTimes, duration)
             times == IF Len(pushed) > RollingWindowSize THEN Tail(pushed) ELSE pushed
             a == m.apiMetrics
             failed == IF success THEN a.failedRequests ELSE a.failedRequests + 1
             a1 == [a EXCEPT
                      !.totalRequests = @ + 1,
                      !.lastRequestTime = t,
                      !.successfulRequests = IF success THEN @ + 1 ELSE @,
                      !.failedRequests = failed,
                      !.lastErrorTime = IF success THEN @ ELSE t,
                      !.averageResponseTime = Norm(SumSeq(times, Len(times)), Len(times)),
                      !.errorRate = Norm(failed * 100, a.totalRequests + 1)]
             m1 == [m EXCEPT !.requestTimes = times, !.apiMetrics = a1]
             m2 == IF duration > cfg.responseTimeThreshold
                   THEN createAlert(m1, cfg, PERFORMANCE_WARNING, WARNING, API_CLIENT,
                                    NoIdentifier, t)
                   ELSE m1
         IN  IF ~success
             THEN createAlert(m2, cfg, API_ERROR, ERROR, API_CLIENT, NoIdentifier, t)
             ELSE m2

determineComponentStatusIgnoringResolved(m, source, t) ==
    LET fiveMinutesAgo == t - FiveMinutes
        recentAlerts == {i \in 1..Len(m.alerts) :
                           /\ m.alerts[i].source = source
                           /\ m.alerts[i].timestamp > fiveMinutesAgo}
    IN  IF \E i \in recentAlerts : m.alerts[i].severity = CRITICAL THEN "critical"
        ELSE IF \E i \in recentAlerts : m.alerts[i].severity = WARNING THEN "warning"
        ELSE "healthy"

determineComponentStatus(m, source, t) ==
    LET fiveMinutesAgo == t - FiveMinutes
        recentAlerts == {i \in 1..Len(m.alerts) :
                           /\ m.alerts[i].source = source
                           /\ m.alerts[i].timestamp > fiveMinutesAgo
                           /\ ~m.alerts[i].resolved}
    IN  IF \E i \in recentAlerts : m.alerts[i].severity = CRITICAL THEN "critical"
        ELSE IF \E i \in recentAlerts : m.alerts[i].severity = WARNING THEN "warning"
        ELSE "healthy"

getHealthStatus(m, t) ==
    LET recentCriticalAlerts == {i \in 1..Len(m.alerts) :
                                   /\ m.alerts[i].severity = CRITICAL
                                   /\ ~m.alerts[i].resolved
                                   /\ t - m.alerts[i].timestamp < FiveMinutes}
        rateLimiterStatus == determineComponentStatus(m, RATE_LIMITER, t)
        circuitBreakerStatus == determineComponentStatus(m, CIRCUIT_BREAKER, t)
        apiStatus == determineComponentStatus(m, API_CLIENT, t)
        issues == (IF rateLimiterStatus # "healthy" THEN <<RATE_LIMITER>> ELSE <<>>)
                  \o (IF circuitBreakerStatus # "healthy" THEN <<CIRCUIT_BREAKER>> ELSE <<>>)
                  \o (IF apiStatus # "healthy" THEN <<API_CLIENT>> ELSE <<>>)
    IN  [isHealthy |-> recentCriticalAlerts = {} /\ issues = <<>>,
         rateLimiterStatus |-> rateLimiterStatus,
         circuitBreakerStatus |-> circuitBreakerStatus,
         apiStatus |-> apiStatus,
         lastChecked |-> t,
         uptime |-> t - startTime,
         issues |-> issues]

\* getApiMetrics(): stores requestsPerMinute, the number of api_client alerts
\* of the last minute, and returns a copy of the metrics
getApiMetrics(m, t) ==
    LET oneMinuteAgo == t - OneMinute
        recentRequests == Cardinality({i \in 1..Len(m.alerts) :
                                         /\ m.alerts[i].timestamp > oneMinuteAgo
                                         /\ m.alerts[i].source = API_CLIENT})
    IN  [m EXCEPT !.apiMetrics.requestsPerMinute = recentRequests]

\* emitMetricsSummary(): reads health and metrics and emits the summary
emitMetricsSummary(m, cfg, t) ==
    LET m1 == getApiMetrics(m, t)
    IN  IF cfg.enableEventEmission
        THEN [m1 EXCEPT !.emitted = Append(@, Event(METRICS_SUMMARY, NoIdentifier, NoIdentifier, t))]
        ELSE m1

\* setEnabled(enabled): startMetricsCollection() / stopMetricsCollection()
setEnabled(m, enabled) ==
    IF enabled /\ ~m.metricsTimer THEN [m EXCEPT !.metricsTimer = TRUE]
    ELSE IF ~enabled /\ m.metricsTimer THEN [m EXCEPT !.metricsTimer = FALSE]
    ELSE m

\* ---- inputs of the monitor calls
RateLimitResults ==
    { [NoRateLimitResult EXCEPT !.allowed = TRUE, !.remaining = 5, !.limit = 10],
      [NoRateLimitResult EXCEPT !.allowed = TRUE, !.remaining = 1, !.limit = 10],
      [NoRateLimitResult EXCEPT !.allowed = FALSE, !.remaining = 0, !.limit = 10,
                                !.retryAfter = 1000] }

\* CircuitBreakerMetrics: the fields the monitor reads
Metrics(s, requests, failed) == [state |-> s, totalRequests |-> requests,
                                 totalFailures |-> failed]
MetricsSamples == { Metrics(OPEN, 10, 6), Metrics(OPEN, 4, 3),
                    Metrics(HALF_OPEN, 4, 3), Metrics(CLOSED, 10, 0) }

\* (duration, success)
ApiRequests == { <<1000, TRUE>>, <<6000, TRUE>>, <<1000, FALSE>> }

NoHealth == [isHealthy |-> TRUE, rateLimiterStatus |-> "healthy",
             circuitBreakerStatus |-> "healthy", apiStatus |-> "healthy",
             lastChecked |-> 0, uptime |-> 0, issues |-> <<>>]

\* the arguments of a monitor call that decide which alerts it raises
NoInput == [allowed |-> TRUE, remaining |-> 0, limit |-> 0,
            totalRequests |-> 0, totalFailures |-> 0, duration |-> 0]

MonRecord(op, identifier, arg, health, input) ==
    [op |-> op, identifier |-> identifier, arg |-> arg, at |-> now, health |-> health,
     input |-> input]

NoMonCall == [op |-> "none", identifier |-> NoIdentifier, arg |-> "-", at |-> 0,
              health |-> NoHealth, input |-> NoInput]

MonFrame == UNCHANGED <<startTime, cacheVars, cbVars, rlVars, extVars>>
MonCall == monOps < MaxMonOps /\ monOps' = monOps + 1 /\ UNCHANGED now /\ MonFrame

MonitorRateLimit(identifier, result) ==
    /\ MonCall
    /\ InstallMonitor(monitorRateLimit(MonObj, monConfig, identifier, result, now))
    /\ lastMon' = MonRecord("monitorRateLimit", identifier,
                            IF result.allowed THEN "allowed" ELSE "denied", NoHealth,
                            [NoInput EXCEPT !.allowed = result.allowed,
                                            !.remaining = result.remaining,
                                            !.limit = result.limit])
    /\ UNCHANGED monConfig

MonitorCircuitBreaker(identifier, metrics) ==
    /\ MonCall
    /\ InstallMonitor(monitorCircuitBreaker(MonObj, monConfig, identifier, metrics, now))
    /\ lastMon' = MonRecord("monitorCircuitBreaker", identifier, metrics.state, NoHealth,
                            [NoInput EXCEPT !.totalRequests = metrics.totalRequests,
                                            !.totalFailures = metrics.totalFailures])
    /\ UNCHANGED monConfig

MonitorApiRequest(duration, success) ==
    /\ MonCall
    /\ InstallMonitor(monitorApiRequest(MonObj, monConfig, duration, success, now))
    /\ lastMon' = MonRecord("monitorApiRequest", NoIdentifier,
                            IF success THEN "success" ELSE "failure", NoHealth,
                            [NoInput EXCEPT !.duration = duration])
    /\ UNCHANGED monConfig

GetHealthStatus ==
    /\ MonCall
    /\ lastMon' = MonRecord("getHealthStatus", NoIdentifier, "-",
                            getHealthStatus(MonObj, now), NoInput)
    /\ UNCHANGED <<monConfig, alerts, emitted, apiMetrics, requestTimes, metricsTimer>>

GetApiMetrics ==
    /\ MonCall
    /\ InstallMonitor(getApiMetrics(MonObj, now))
    /\ lastMon' = MonRecord("getApiMetrics", NoIdentifier, "-", NoHealth, NoInput)
    /\ UNCHANGED monConfig

CleanupAlerts ==
    /\ MonCall
    /\ InstallMonitor(cleanupAlerts(MonObj, monConfig, now))
    /\ lastMon' = MonRecord("cleanupAlerts", NoIdentifier, "-", NoHealth, NoInput)
    /\ UNCHANGED monConfig

SetEnabled(enabled) ==
    /\ MonCall
    /\ monConfig' = [monConfig EXCEPT !.enabled = enabled]
    /\ InstallMonitor(setEnabled(MonObj, enabled))
    /\ lastMon' = MonRecord("setEnabled", NoIdentifier,
                            IF enabled THEN "true" ELSE "false", NoHealth, NoInput)

\* stop(): stopMetricsCollection(); the listeners it removes are outside
Stop ==
    /\ MonCall
    /\ InstallMonitor([MonObj EXCEPT !.metricsTimer = FALSE])
    /\ lastMon' = MonRecord("stop", NoIdentifier, "-", NoHealth, NoInput)
    /\ UNCHANGED monConfig

\* the setInterval callback: emitMetricsSummary() then cleanupAlerts()
MetricsTimerFires ==
    /\ metricsTimer
    /\ MonCall
    /\ InstallMonitor(cleanupAlerts(emitMetricsSummary(MonObj, monConfig, now),
                                    monConfig, now))
    /\ lastMon' = MonRecord("metricsTimer", NoIdentifier, "-",
                            getHealthStatus(MonObj, now), NoInput)
    /\ UNCHANGED monConfig

\* the clock advances between two calls
MonTickSteps == {10000, 60000, 300000}

MonTick(d) ==
    /\ monOps < MaxMonOps
    /\ monOps' = monOps + 1
    /\ now' = now + d
    /\ lastMon' = MonRecord("tick", NoIdentifier, "-", NoHealth, NoInput)
    /\ UNCHANGED <<monConfig, alerts, emitted, apiMetrics, requestTimes, metricsTimer>>
    /\ MonFrame

MonitoringConfig(maxStoredAlerts, alertAggregationWindow, metricsInterval) ==
    [enabled |-> TRUE, rateLimitWarningThreshold |-> 80,
     circuitBreakerFailureThreshold |-> 50, responseTimeThreshold |-> 5000,
     enableConsoleLogging |-> TRUE, enableEventEmission |-> TRUE,
     maxStoredAlerts |-> maxStoredAlerts,
     alertAggregationWindow |-> alertAggregationWindow,
     metricsInterval |-> metricsInterval]

\* new ApiMonitor(config) at clock reading t
InitMonitor(cfg, t) ==
    /\ monConfig = cfg
    /\ alerts = <<>>
    /\ apiMetrics = InitialApiMetrics
    /\ requestTimes = <<>>
    /\ startTime = t
    /\ metricsTimer = (cfg.enabled /\ cfg.metricsInterval > 0)
    /\ emitted = <<>>
    /\ monOps = 0
    /\ lastMon = NoMonCall

\* the monitor of a specification that does not use it
MonIdle == InitMonitor([MonitoringConfig(1000, 60000, 0) EXCEPT !.enabled = FALSE], 0)

(***************************************************************************)
(* CacheFactory                                                            *)
(***************************************************************************)
\* two of the cache types, and CACHE_CONFIGS[type].maxSize
CacheTypes == {"general", "dns-records"}
PresetMaxSize(type) == IF type = "dns-records" THEN 5000 ELSE 1000

\* customConfig: left out, or { maxSize: n }
NoOverrides == [given |-> FALSE, maxSize |-> 0]
Overrides == {NoOverrides, [given |-> TRUE, maxSize |-> 7]}

\* keys of the Map: the type for a singleton (stamp = NoTime), or the
\* template string `${type}-${Date.now()}`
SingletonKey(type) == [type |-> type, stamp |-> NoTime]
StampedKey(type, t) == [type |-> type, stamp |-> t]

\* Map.get: the instance stored under the key, 0 for undefined
MapGet(m, key) ==
    IF \E i \in 1..Len(m) : m[i].key = key
    THEN m[CHOOSE i \in 1..Len(m) : m[i].key = key].inst
    ELSE 0

\* Map.set: an existing key keeps its place and takes the new value
MapSet(m, key, inst) ==
    IF \E i \in 1..Len(m) : m[i].key = key
    THEN [i \in 1..Len(m) |-> IF m[i].key = key THEN [key |-> key, inst |-> inst]
                                               ELSE m[i]]
    ELSE Append(m, [key |-> key, inst |-> inst])

FactoryObj == [caches |-> caches, instances |-> instances]

\* new LRUCache(finalConfig): the environment sets no variable, so finalConfig
\* is the preset overridden by customConfig; the constructor starts the timer
NewInstance(type, customConfig) ==
    [type |-> type,
     maxSize |-> IF customConfig.given THEN customConfig.maxSize ELSE PresetMaxSize(type),
     cleanupTimer |-> TRUE, size |-> 0]

\* createCache(type, customConfig): the factory after the call and the
\* identity of the returned instance
createCache(f, type, customConfig, t) ==
    LET newCache == Len(f.instances) + 1
    IN  [f |-> [f EXCEPT !.instances = Append(@, NewInstance(type, customConfig)),
                         !.caches = MapSet(@, StampedKey(type, t), newCache)],
         ret |-> newCache]

getOrCreateCacheAlwaysNew(f, type, customConfig, t) ==
    LET r == createCache(f, type, customConfig, t)
    IN  [f |-> [r.f EXCEPT !.caches = MapSet(@, SingletonKey(type), r.ret)],
         ret |-> r.ret]
getOrCreateCache(f, type, customConfig, t) ==
    LET existingCache == MapGet(f.caches, SingletonKey(type))
    IN  IF existingCache # 0
        THEN [f |-> f, ret |-> existingCache]
        ELSE LET r == createCache(f, type, customConfig, t)
             IN  [f |-> [r.f EXCEPT !.caches = MapSet(@, SingletonKey(type), r.ret)],
                  ret |-> r.ret]

\* LRUCache.shutdown(): clearInterval and clear()
cacheShutdown(c) == [c EXCEPT !.cleanupTimer = FALSE, !.size = 0]

\* shutdown(): shuts down every cache held in the Map and clears the Map
shutdown(f) ==
    LET managed == {f.caches[i].inst : i \in 1..Len(f.caches)}
    IN  [f EXCEPT !.instances = [i \in 1..Len(@) |->
                                    IF i \in managed THEN cacheShutdown(@[i]) ELSE @[i]],
                  !.caches = <<>>]

\* getAllCacheStats(): the keys of the returned record
getAllCacheStats(f) == {f.caches[i].key : i \in 1..Len(f.caches)}

\* ---- bookkeeping of the last call
\* handed: the instances returned by the factory since the previous shutdown;
\* first: per type, the first getOrCreateCache call since the previous
\* shutdown (the instance it returned, 0 for none yet, and its overrides)
FacRecord(op, type, customConfig, ret, stats, handed, first) ==
    [op |-> op, type |-> type, customConfig |-> customConfig, ret |-> ret,
     stats |-> stats, handed |-> handed, first |-> first]
NoFirst == [type \in CacheTypes |-> [inst |-> 0, customConfig |-> NoOverrides]]
NoFacCall == FacRecord("none", "-", NoOverrides, 0, {}, {}, NoFirst)

\* the bookkeeping starts afresh with the first call after a shutdown
HandedNow == IF lastFac.op = "shutdown" THEN {} ELSE lastFac.handed
FirstNow == IF lastFac.op = "shutdown" THEN NoFirst ELSE lastFac.first

FacFrame == UNCHANGED <<cacheVars, cbVars, rlVars, monVars, built, clVars>>
FacCall == facOps < MaxFacOps /\ facOps' = facOps + 1 /\ UNCHANGED now /\ FacFrame

InstallFactory(f) == caches' = f.caches /\ instances' = f.instances

CreateCache(type, customConfig) ==
    /\ FacCall
    /\ \E r \in {createCache(FactoryObj, type, customConfig, now)} :
           /\ InstallFactory(r.f)
           /\ lastFac' = FacRecord("createCache", type, customConfig, r.ret, {},
                                   HandedNow \cup {r.ret}, FirstNow)

GetOrCreateCache(type, customConfig) ==
    /\ FacCall
    /\ \E r \in {getOrCreateCache(FactoryObj, type, customConfig, now)} :
           /\ InstallFactory(r.f)
           /\ lastFac' = FacRecord("getOrCreateCache", type, customConfig, r.ret, {},
                                   HandedNow \cup {r.ret},
                                   IF FirstNow[type].inst = 0
                                   THEN [FirstNow EXCEPT ![type] =
                                            [inst |-> r.ret, customConfig |-> customConfig]]
                                   ELSE FirstNow)

\* the owner of a returned cache stores an entry in it: cache.set(key, value)
CacheSet(c) ==
    /\ FacCall
    /\ c \in 1..Len(instances)
    /\ instances[c].size = 0
    /\ instances' = [instances EXCEPT ![c].size = 1]
    /\ lastFac' = FacRecord("set", instances[c].type, NoOverrides, c, {},
                            HandedNow, FirstNow)
    /\ UNCHANGED caches

\* shutdown(); the record keeps the instances handed out before it
Shutdown ==
    /\ FacCall
    /\ InstallFactory(shutdown(FactoryObj))
    /\ lastFac' = FacRecord("shutdown", "-", NoOverrides, 0, {}, HandedNow, FirstNow)

GetAllCacheStats ==
    /\ FacCall
    /\ UNCHANGED <<caches, instances>>
    /\ lastFac' = FacRecord("getAllCacheStats", "-", NoOverrides, 0,
                            getAllCacheStats(FactoryObj), HandedNow, FirstNow)

\* the clock advances between two calls
FacTick ==
    /\ now < MaxFacTime
    /\ now' = now + 1
    /\ lastFac' = [lastFac EXCEPT !.op = "tick", !.handed = HandedNow,
                                  !.first = FirstNow]
    /\ UNCHANGED <<caches, instances, facOps>>
    /\ FacFrame

\* new CacheFactory()
InitFactory ==
    /\ caches = <<>>
    /\ instances = <<>>
    /\ facOps = 0
    /\ lastFac = NoFacCall

FacIdle == InitFactory

(***************************************************************************)
(* Constructors: new CircuitBreaker(config), new SlidingWindowRateLimiter  *)
(***************************************************************************)
NoError == "none"

\* validateConfig(): the message of the first check that fails
validateConfigNoMaxTimeout(cfg) ==
    CASE cfg.failureThreshold <= 0 -> "Failure threshold must be greater than 0"
      [] cfg.successThreshold <= 0 -> "Success threshold must be greater than 0"
      [] cfg.monitoringPeriod <= 0 -> "Monitoring period must be greater than 0"
      [] cfg.timeout <= 0 -> "Timeout must be greater than 0"
      [] cfg.backoffMultiplier <= 1 -> "Backoff multiplier must be greater than 1"
      [] cfg.resetThreshold <= 0 -> "Reset threshold must be greater than 0"
      [] OTHER -> NoError
validateConfig(cfg) ==
    IF cfg.failureThreshold <= 0 THEN "Failure threshold must be greater than 0"
    ELSE IF cfg.successThreshold <= 0 THEN "Success threshold must be greater than 0"
    ELSE IF cfg.monitoringPeriod <= 0 THEN "Monitoring period must be greater than 0"
    ELSE IF cfg.timeout <= 0 THEN "Timeout must be greater than 0"
    ELSE IF cfg.maxTimeout < cfg.timeout
         THEN "Max timeout must be greater than or equal to initial timeout"
    ELSE IF cfg.backoffMultiplier <= 1 THEN "Backoff multiplier must be greater than 1"
    ELSE IF cfg.resetThreshold <= 0 THEN "Reset threshold must be greater than 0"
    ELSE NoError

\* the limiter's constructor: its only check
limiterConstructor(cfg) ==
    IF RateLimiterConstructorThrows(cfg)
    THEN "Period must be at least one window duration"
    ELSE NoError

ConfigErrors ==
    { "Failure threshold must be greater than 0",
      "Success threshold must be greater than 0",
      "Monitoring period must be greater than 0",
      "Timeout must be greater than 0",
      "Max timeout must be greater than or equal to initial timeout",
      "Backoff multiplier must be greater than 1",
      "Reset threshold must be greater than 0",
      "Period must be at least one window duration" }

Built(class, arg, error) == [class |-> class, arg |-> arg, error |-> error]
NoBuilt == Built("none", 0, NoError)
CtorIdle == built = NoBuilt

\* the object exists: its constructor returned
Constructed(class) == built.class = class /\ built.error = NoError

(***************************************************************************)
(* CachedRealtimeRegisterClient: domain availability lookups               *)
(***************************************************************************)
\* the domain names passed in, and what String.toLowerCase and String.trim
\* make of them
RawDomains == {"A.com", " b.com"}
toLowerCase(d) == IF d = "A.com" THEN "a.com" ELSE d
trim(d) == IF d = " b.com" THEN "b.com" ELSE d

\* generateCacheKey('domain-availability', domain, {}): the part of the key
\* that varies is identifier.toLowerCase()
generateCacheKey(domain) == toLowerCase(domain)

CacheKeys == {generateCacheKey(d) : d \in RawDomains \cup {trim(toLowerCase(d)) : d \in RawDomains}}

NoEntry == [domain |-> "-", available |-> FALSE]

\* what the environment does during one call: whether cache.get and cache.set
\* throw, and what the API answers for each domain it is asked about
ApiAnswers == {"available", "throws"}

Returned(v) == [kind |-> "value", value |-> v]
Thrown(e) == [kind |-> "throws", value |-> [domain |-> e, available |-> FALSE]]

\* baseClient.checkDomainAvailability(domain)
baseCheck(domain, env) ==
    IF env.api[domain] = "throws"
    THEN Thrown("API Error")
    ELSE Returned([domain |-> domain, available |-> env.api[domain] = "available"])

\* the outcome of the lookup of one domain: what is returned or thrown, the
\* cache afterwards, the base-client calls made and whether there was a hit
Lookup(ret, c, baseCalls, hit) ==
    [ret |-> ret, cache |-> c, baseCalls |-> baseCalls, hit |-> hit]

\* the part after a cache miss: the API call, then the write to the cache
fetchAndStoreRethrowWrite(c, domain, key, env) ==
    LET result == baseCheck(domain, env)
    IN  IF result.kind = "throws" THEN Lookup(result, c, <<domain>>, FALSE)
        ELSE IF env.writeThrows THEN Lookup(Thrown("Cache error"), c, <<domain>>, FALSE)
        ELSE Lookup(result, [c EXCEPT ![key] = result.value], <<domain>>, FALSE)
fetchAndStore(c, domain, key, env) ==
    LET result == baseCheck(domain, env)
    IN  IF result.kind = "throws" THEN Lookup(result, c, <<domain>>, FALSE)
        ELSE IF env.writeThrows THEN Lookup(result, c, <<domain>>, FALSE)
        ELSE Lookup(result, [c EXCEPT ![key] = result.value], <<domain>>, FALSE)

\* checkDomainAvailability(domain)
checkDomainAvailability(options, c, domain, env) ==
    IF ~options.enableCaching
    THEN Lookup(baseCheck(domain, env), c, <<domain>>, FALSE)
    ELSE LET cacheKey == generateCacheKey(domain)
         IN  IF env.readThrows
             THEN IF options.fallbackOnCacheError
                  THEN Lookup(baseCheck(domain, env), c, <<domain>>, FALSE)
                  ELSE Lookup(Thrown("Cache error"), c, <<>>, FALSE)
             ELSE IF c[cacheKey] # NoEntry
                  THEN Lookup(Returned(c[cacheKey]), c, <<>>, TRUE)
                  ELSE fetchAndStore(c, domain, cacheKey, env)

\* the body run for one domain of checkDomainsAvailability
checkOneOfBulk(options, c, domain, env) ==
    IF ~options.enableCaching
    THEN Lookup(baseCheck(domain, env), c, <<domain>>, FALSE)
    ELSE LET cacheKey == generateCacheKey(domain)
         IN  IF env.readThrows
             THEN IF options.fallbackOnCacheError
                  THEN fetchAndStore(c, domain, cacheKey, env)
                  ELSE Lookup(Thrown("Cache error"), c, <<>>, FALSE)
             ELSE IF c[cacheKey] # NoEntry
                  THEN Lookup(Returned(c[cacheKey]), c, <<>>, TRUE)
                  ELSE fetchAndStore(c, domain, cacheKey, env)

\* [...new Set(domains.map((domain) => domain.toLowerCase().trim()))]
RECURSIVE uniqueDomains(_, _)
uniqueDomains(domains, i) ==
    IF i = 0 THEN <<>>
    ELSE LET before == uniqueDomains(domains, i - 1)
             d == trim(toLowerCase(domains[i]))
         IN  IF \E j \in 1..Len(before) : before[j] = d THEN before ELSE Append(before, d)

\* checkDomainsAvailability(domains): the domains are looked up one after the
\* other here; each has a cache key of its own, so the order does not matter
BulkResult(successful, failed, c, baseCalls, cacheHits) ==
    [successful |-> successful, failed |-> failed, cache |-> c,
     baseCalls |-> baseCalls, cacheHits |-> cacheHits]

\* the lookups of unique[i..], after those before them gave acc
RECURSIVE bulkLookups(_, _, _, _, _)
bulkLookups(options, acc, unique, i, env) ==
    IF i > Len(unique) THEN acc
    ELSE \* one lookup, bound once
         LET next == CHOOSE n \in
                 {LET r == checkOneOfBulk(options, acc.cache, unique[i], env)
                  IN  BulkResult(
                          IF r.ret.kind = "value" THEN Append(acc.successful, r.ret.value)
                                                  ELSE acc.successful,
                          IF r.ret.kind = "throws"
                          THEN Append(acc.failed,
                                      [domain |-> unique[i], error |-> r.ret.value.domain])
                          ELSE acc.failed,
                          r.cache, acc.baseCalls \o r.baseCalls,
                          acc.cacheHits + (IF r.hit THEN 1 ELSE 0))} : TRUE
         IN  bulkLookups(options, next, unique, i + 1, env)

checkDomainsAvailability(options, c, domains, env) ==
    bulkLookups(options, BulkResult(<<>>, <<>>, c, <<>>, 0),
                uniqueDomains(domains, Len(domains)), 1, env)

\* ---- bookkeeping of the last call
ClRecord(op, domains, env, ret, bulk, baseCalls) ==
    [op |-> op, domains |-> domains, env |-> env, ret |-> ret, bulk |-> bulk,
     baseCalls |-> baseCalls]
CalmEnv == [readThrows |-> FALSE, writeThrows |-> FALSE,
            api |-> [d \in {} |-> "available"]]
NoBulk == [successful |-> <<>>, failed |-> <<>>, cacheHits |-> 0]
NoClCall == ClRecord("none", <<>>, CalmEnv, Returned(NoEntry), NoBulk, <<>>)

\* a cache that is never used (caching disabled) has no occasion to throw
Faults == IF clOptions.enableCaching THEN BOOLEAN ELSE {FALSE}
Envs(asked) == [readThrows : Faults, writeThrows : Faults, api : [asked -> ApiAnswers]]

ClCall ==
    /\ clOps < MaxClOps
    /\ clOps' = clOps + 1
    /\ UNCHANGED <<now, clOptions, cacheVars, cbVars, rlVars, monVars, facVars, built>>

CheckDomainAvailability(domain) ==
    /\ ClCall
    /\ \E env \in Envs({domain}) :
         \E r \in {checkDomainAvailability(clOptions, clCache, domain, env)} :
           /\ clCache' = r.cache
           /\ lastCl' = ClRecord("checkDomainAvailability", <<domain>>, env, r.ret,
                                 NoBulk, r.baseCalls)

BulkInputs == UNION {[1..n -> RawDomains] : n \in 1..MaxBulk}

CheckDomainsAvailability(domains) ==
    /\ ClCall
    /\ \E env \in Envs({trim(toLowerCase(domains[i])) : i \in 1..Len(domains)}) :
         \E r \in {checkDomainsAvailability(clOptions, clCache, domains, env)} :
           /\ clCache' = r.cache
           /\ lastCl' = ClRecord("checkDomainsAvailability", domains, env,
                                 Returned(NoEntry),
                                 [successful |-> r.successful, failed |-> r.failed,
                                  cacheHits |-> r.cacheHits],
                                 r.baseCalls)

\* new CachedRealtimeRegisterClient(config, options): both caches are empty
InitClient(options) ==
    /\ clOptions = options
    /\ clCache = [k \in CacheKeys |-> NoEntry]
    /\ clOps = 0
    /\ lastCl = NoClCall

ClIdle == InitClient([enableCaching |-> TRUE, fallbackOnCacheError |-> TRUE])

(***************************************************************************)
(* Specifications                                                          *)
(***************************************************************************)
CbConfig(fT, sT, mP, to, maxTo, mult, rT) ==
    [failureThreshold |-> fT, successThreshold |-> sT, monitoringPeriod |-> mP,
     timeout |-> to, maxTimeout |-> maxTo, backoffMultiplier |-> mult,
     resetThreshold |-> rT]

\* valid configurations tried (validateConfig accepts each of them)
CbConfigs == { CbConfig(1, 1, 2, 1, 4, 2, 1),
               CbConfig(1, 1, 10, 1, 3, 2, 2),
               CbConfig(3, 2, 10, 1, 3, 2, 2),
               CbConfig(2, 1, 10, 1, 3, 2, 2) }

InitBreaker(cfg) ==
    /\ config = cfg
    /\ LET b == NewBreaker(cfg, 0)
       IN  /\ state = b.state
           /\ failureCount = b.failureCount
           /\ successCount = b.successCount
           /\ consecutiveSuccesses = b.consecutiveSuccesses
           /\ totalRequests = b.totalRequests
           /\ totalFailures = b.totalFailures
           /\ totalSuccesses = b.totalSuccesses
           /\ lastFailureTime = b.lastFailureTime
           /\ lastSuccessTime = b.lastSuccessTime
           /\ currentTimeout = b.currentTimeout
           /\ stateChangedAt = b.stateChangedAt
           /\ failures = b.failures
    /\ calls = [c \in CallIds |-> IdleCall]
    /\ cbOps = 0
    /\ lastCb = CbStep("none", NoCall, "-")

\* the breaker of a specification that does not use it
CbIdle == InitBreaker(CbConfig(1, 1, 1, 1, 1, 2, 1))

\* constructor options tried: (maxSize, memoryThreshold)
DefaultMemoryThreshold == 52428800
CacheConfigs == {<<1, 55>>, <<2, DefaultMemoryThreshold>>, <<2, 115>>}

InitCache ==
    /\ now = 0
    /\ cache = <<>>
    /\ \E cfg \in CacheConfigs : maxSize = cfg[1] /\ memoryThreshold = cfg[2]
    /\ defaultTTL = 1
    /\ hits = 0 /\ misses = 0 /\ evictions = 0 /\ cleanups = 0
    /\ currentMemoryUsage = 0
    /\ cacheOps = 0
    /\ lastOp = NoOp
    /\ recency = <<>>
    /\ CbIdle /\ RlIdle /\ MonIdle /\ FacIdle /\ CtorIdle /\ ClIdle

\* Keys are interchangeable: of the keys never set so far, calls use the
\* first one (every call sequence is such a sequence up to renaming of keys).
KeyOrder == <<"A", "B", "C">>
KeyInUse(k) == \A i \in 1..Len(KeyOrder) :
                 KeyOrder[i] = k =>
                   \A j \in 1..(i - 1) : \E n \in 1..Len(recency) : recency[n] = KeyOrder[j]

NextCache ==
    \/ \E k \in Keys, v \in Values, t \in TTLArgs : KeyInUse(k) /\ Set(k, v, t)
    \/ \E k \in Keys : KeyInUse(k) /\ Get(k)
    \/ \E k \in Keys : KeyInUse(k) /\ Has(k)
    \/ \E k \in Keys : KeyInUse(k) /\ Delete(k)
    \/ Cleanup
    \/ Clear
    \/ CacheTick

SpecCache == InitCache /\ [][NextCache]_vars

\* the cache of a specification that does not use it
CacheIdle ==
    /\ cache = <<>>
    /\ maxSize = 1 /\ defaultTTL = 1 /\ memoryThreshold = DefaultMemoryThreshold
    /\ hits = 0 /\ misses = 0 /\ evictions = 0 /\ cleanups = 0
    /\ currentMemoryUsage = 0
    /\ cacheOps = 0
    /\ lastOp = NoOp
    /\ recency = <<>>

InitCB ==
    /\ now = 0
    /\ \E cfg \in CbConfigs : InitBreaker(cfg)
    /\ CacheIdle /\ RlIdle /\ MonIdle /\ FacIdle /\ CtorIdle /\ ClIdle

NextCB ==
    \/ \E c \in CallIds : ExecuteStart(c)
    \/ \E c \in CallIds, o \in Outcomes : ExecuteComplete(c, o)
    \/ ShouldAllowRequest
    \/ Reset
    \/ \E s \in CircuitBreakerState : ForceState(s)
    \/ GetMetrics
    \/ CbTick

SpecCB == InitCB /\ [][NextCB]_vars

\* the breaker driven by one caller that awaits every call, over a longer time
SeqConfigs == { CbConfig(1, 1, 10, 1, 3, 2, 2), CbConfig(2, 1, 10, 1, 4, 2, 3) }

InitSeq ==
    /\ now = 0
    /\ \E cfg \in SeqConfigs : InitBreaker(cfg)
    /\ CacheIdle /\ RlIdle /\ MonIdle /\ FacIdle /\ CtorIdle /\ ClIdle

NextSeq ==
    \/ AwaitedExecuteStart
    \/ \E o \in Outcomes : ExecuteComplete("c1", o)
    \/ SeqTick

SpecSeq == InitSeq /\ [][NextSeq]_vars

\* limiter configurations tried: (maxRequests, periodMs, windowMs)
RlConfigs == { RateLimitConfig(1, 1, 1), RateLimitConfig(2, 2, 2),
              RateLimitConfig(1, 3, 3), RateLimitConfig(2, 3, 1),
              RateLimitConfig(2, 3, 2) }

InitRL ==
    /\ now = 0
    /\ \E cfg \in RlConfigs : rlConfig = cfg
    /\ windows = EmptyWindows
    /\ consumed = <<>>
    /\ rlOps = 0
    /\ lastRl = NoRlCall
    /\ CacheIdle /\ CbIdle /\ MonIdle /\ FacIdle /\ CtorIdle /\ ClIdle

NextRL ==
    \/ \E id \in Identifiers, consume \in BOOLEAN : CheckLimit(id, consume)
    \/ GetStats
    \/ RlReset
    \/ RlTick

SpecRL == InitRL /\ [][NextRL]_vars

\* monitor configurations tried: the defaults, and a short aggregation window
\* without the metrics timer
MonConfigs == { MonitoringConfig(1000, 60000, 30000), MonitoringConfig(100, 10000, 0),
                MonitoringConfig(1, 60000, 30000) }

\* a clock reading at which the monitor is constructed
StartClock == 1000

InitMon ==
    /\ now = StartClock
    /\ \E cfg \in MonConfigs : InitMonitor(cfg, StartClock)
    /\ CacheIdle /\ CbIdle /\ RlIdle /\ FacIdle /\ CtorIdle /\ ClIdle

\* Identifiers are interchangeable: "B" is used once "A" has occurred in an
\* alert (every call sequence is such a sequence up to renaming).
IdentifierInUse(id) ==
    id = "A" \/ \E i \in 1..Len(alerts) : alerts[i].identifier = "A"

NextMon ==
    \/ \E id \in Identifiers, r \in RateLimitResults :
          IdentifierInUse(id) /\ MonitorRateLimit(id, r)
    \/ \E id \in Identifiers, m \in MetricsSamples :
          IdentifierInUse(id) /\ MonitorCircuitBreaker(id, m)
    \/ \E r \in ApiRequests : MonitorApiRequest(r[1], r[2])
    \/ GetHealthStatus
    \/ GetApiMetrics
    \/ CleanupAlerts
    \/ \E e \in BOOLEAN : SetEnabled(e)
    \/ Stop
    \/ MetricsTimerFires
    \/ \E d \in MonTickSteps : MonTick(d)

SpecMon == InitMon /\ [][NextMon]_vars

InitFac ==
    /\ now = 0
    /\ InitFactory
    /\ CacheIdle /\ CbIdle /\ RlIdle /\ MonIdle /\ CtorIdle /\ ClIdle

NextFac ==
    \/ \E type \in CacheTypes, o \in Overrides : CreateCache(type, o)
    \/ \E type \in CacheTypes, o \in Overrides : GetOrCreateCache(type, o)
    \/ \E c \in 1..MaxFacOps : CacheSet(c)
    \/ Shutdown
    \/ GetAllCacheStats
    \/ FacTick

SpecFac == InitFac /\ [][NextFac]_vars

\* the values tried for each field of a breaker config
CtorValues == {-1, 0, 1, 2}
CtorCbConfigs ==
    { CbConfig(fT, sT, mP, to, maxTo, mult, rT) :
        fT \in CtorValues, sT \in CtorValues, mP \in CtorValues, to \in CtorValues,
        maxTo \in CtorValues, mult \in CtorValues, rT \in CtorValues }

\* the limiter configs tried: windowMs is positive
CtorRlConfigs ==
    { RateLimitConfig(1, periodMs, windowMs) : periodMs \in 0..3, windowMs \in 1..3 }

\* the state after one constructor call: the object when it returned, and
\* no object when it threw
InitCtor ==
    /\ now = 0
    /\ \/ \E cfg \in CtorCbConfigs :
             /\ built = Built("CircuitBreaker", cfg, validateConfig(cfg))
             /\ IF validateConfig(cfg) = NoError THEN InitBreaker(cfg) ELSE CbIdle
             /\ RlIdle
       \/ \E cfg \in CtorRlConfigs :
             /\ built = Built("SlidingWindowRateLimiter", cfg, limiterConstructor(cfg))
             /\ IF limiterConstructor(cfg) = NoError
                THEN /\ rlConfig = cfg
                     /\ windows = EmptyWindows
                     /\ consumed = <<>>
                     /\ rlOps = 0
                     /\ lastRl = NoRlCall
                ELSE RlIdle
             /\ CbIdle
    /\ CacheIdle /\ MonIdle /\ FacIdle /\ ClIdle

\* the calls made on the object the constructor returned
BuiltExecuteStart == Constructed("CircuitBreaker") /\ AwaitedExecuteStart
BuiltExecuteComplete(o) == Constructed("CircuitBreaker") /\ ExecuteComplete("c1", o)
BuiltBreakerTick == Constructed("CircuitBreaker") /\ SeqTick
BuiltCheckLimit(identifier, consume) ==
    Constructed("SlidingWindowRateLimiter") /\ CheckLimit(identifier, consume)
BuiltLimiterTick == Constructed("SlidingWindowRateLimiter") /\ RlTick

NextCtor ==
    \/ BuiltExecuteStart
    \/ \E o \in Outcomes : BuiltExecuteComplete(o)
    \/ BuiltBreakerTick
    \/ \E id \in Identifiers, consume \in BOOLEAN : BuiltCheckLimit(id, consume)
    \/ BuiltLimiterTick

SpecCtor == InitCtor /\ [][NextCtor]_vars

InitCl ==
    /\ now = 0
    /\ \E enableCaching \in BOOLEAN, fallbackOnCacheError \in BOOLEAN :
           InitClient([enableCaching |-> enableCaching,
                       fallbackOnCacheError |-> fallbackOnCacheError])
    /\ CacheIdle /\ CbIdle /\ RlIdle /\ MonIdle /\ FacIdle /\ CtorIdle

NextCl ==
    \/ \E domain \in RawDomains : CheckDomainAvailability(domain)
    \/ \E domains \in BulkInputs : CheckDomainsAvailability(domains)

SpecCl == InitCl /\ [][NextCl]_vars

(***************************************************************************)
(* Claims about the LRU cache (checked under SpecCache)                    *)
(***************************************************************************)
\* a step that is one cache call
IsCacheCall == cacheOps' = cacheOps + 1

\* C1: with maxSize >= 1, size() <= maxSize after any sequence of set, get,
\* has, delete, cleanup and clear calls with arbitrary time advances.
C1_SizeWithinMax == maxSize >= 1 => Len(cache) <= maxSize

\* a set has just been made into a full cache and evicted an entry
C1_Witness == lastOp.op = "set" /\ Len(cache) = maxSize /\ evictions > 0

\* C2: get returns a value and has returns true only for an entry with
\* ttl > 0 and now - createdAt <= ttl (get returns that entry's value); an
\* entry with ttl <= 0 is never returned, not even at the instant of its set;
\* an expired entry found by get or has is removed from the cache.
C2_OnlyLiveEntriesReturned ==
    [][ (IsCacheCall /\ lastOp'.op \in {"get", "has"}) =>
          LET k == lastOp'.key
              present == k \in KeysOf(cache)
              e == EntryOf(cache, k)
              live == e.ttl > 0 /\ now - e.timestamp <= e.ttl
          IN  /\ lastOp'.retBool => (present /\ live)
              /\ (lastOp'.op = "get" /\ lastOp'.retBool) => lastOp'.retVal = e.value
              /\ (present /\ ~live) => (k \notin KeysOf(cache') /\ ~lastOp'.retBool)
      ]_vars

\* a get has just found an expired entry and removed it
C2_Witness == lastOp.op = "get" /\ lastOp.key \in lastOp.removed /\ ~lastOp.retBool

\* a set of a key that is not stored, into a cache holding maxSize entries
SetNewKeyAtCapacity ==
    /\ IsCacheCall
    /\ lastOp'.op = "set"
    /\ lastOp'.key \notin KeysOf(cache)
    /\ Len(cache) = maxSize

\* C3 as stated: a set of a new key into a cache that holds maxSize entries
\* removes exactly one entry, the least recently used one (recency refreshed
\* by set and by successful get).
C3_ExactlyOneLruEvicted ==
    [][ SetNewKeyAtCapacity => lastOp'.removed = {LruKey} ]_vars

\* C3 amended: such a set always evicts the least recently used entry; it is
\* the only entry removed, and the new key is stored, whenever the insertion
\* does not trigger the memory cleanup pass (estimated memory above
\* memoryThreshold), which then removes further entries.
C3_LruEvictedBeforeInsert ==
    [][ SetNewKeyAtCapacity =>
          /\ LruKey \in lastOp'.removed
          /\ evictions' >= evictions + 1
          /\ (cleanups' = cleanups =>
                 /\ lastOp'.removed = {LruKey}
                 /\ evictions' = evictions + 1
                 /\ KeysOf(cache') = (KeysOf(cache) \ {LruKey}) \cup {lastOp'.key})
      ]_vars

\* set A, set B, get A, set C with maxSize = 2: B was evicted, A and C remain
C3_Witness ==
    /\ lastOp.op = "set" /\ maxSize = 2 /\ hits = 1 /\ cleanups = 0
    /\ lastOp.removed # {} /\ Len(cache) = 2
    /\ recency[1] \in lastOp.removed
    /\ recency[2] \in KeysOf(cache)


(***************************************************************************)
(* Claims about the circuit breaker (checked under SpecCB)                 *)
(***************************************************************************)
\* the breaker step that leads to the primed state
StepOp == lastCb'.op
StepIsFailure == StepOp = "complete" /\ lastCb'.arg \in ThrownKinds
StepIsSuccess == StepOp = "complete" /\ lastCb'.arg = "success"
StepIsOverride == StepOp \in {"reset", "forceState"}
StepCall == calls'[lastCb'.call]
Elapsed == now - stateChangedAt
TimeoutReached == RLeq(currentTimeout, RInt(Elapsed))

\* C4: in CLOSED every execute is admitted and each failure adds one to the
\* failure count; the failure that brings the count to failureThreshold
\* opens the breaker, and the breaker leaves CLOSED in no other way (it
\* stays CLOSED while the count is below failureThreshold).
C4_ClosedOpensAtThreshold ==
    [][ state = CLOSED =>
          /\ StepOp = "execute" =>
                (lastCb'.arg = "admitted" /\ StepCall.pc = "running" /\ StepCall.invoked = 1)
          /\ StepIsFailure =>
                /\ failureCount' = failureCount + 1
                /\ state' = IF failureCount + 1 >= config.failureThreshold
                            THEN OPEN ELSE CLOSED
          /\ (~StepIsOverride /\ state' # CLOSED) =>
                (StepIsFailure /\ state' = OPEN /\ failureCount' >= config.failureThreshold)
      ]_vars

\* failureThreshold = 3: three executes, three failures, and the third opened
C4_Witness ==
    /\ config.failureThreshold = 3 /\ state = OPEN
    /\ totalRequests = 3 /\ totalFailures = 3 /\ failureCount = 3 /\ cbOps = 3
    /\ lastCb.op = "complete"

\* C5: while OPEN with now - stateChangedAt < currentTimeout, execute returns
\* allowed = false, state OPEN and retryAfter = currentTimeout - (now -
\* stateChangedAt) > 0 without invoking the operation, and leaves the state,
\* stateChangedAt and currentTimeout unchanged.
C5_OpenRejectsUntilTimeout ==
    [][ (state = OPEN /\ ~TimeoutReached /\ StepOp = "execute") =>
          /\ StepCall.pc = "returned"
          /\ StepCall.invoked = 0
          /\ StepCall.res.allowed = FALSE
          /\ StepCall.res.state = OPEN
          /\ StepCall.res.retryAfter = RSubInt(currentTimeout, Elapsed)
          /\ RLess(RInt(0), StepCall.res.retryAfter)
          /\ state' = OPEN
          /\ currentTimeout' = currentTimeout
          /\ stateChangedAt' = stateChangedAt
      ]_vars

\* an execute was rejected one millisecond before the timeout ran out
C5_Witness ==
    /\ state = OPEN /\ lastCb.op = "execute" /\ lastCb.arg = "rejected"
    /\ calls[lastCb.call].res.retryAfter = RInt(1)
    /\ now > stateChangedAt

\* C6: the breaker leaves OPEN (other than by reset / forceState) only in an
\* execute or shouldAllowRequest call made when now - stateChangedAt >=
\* currentTimeout; such a call, also at exactly currentTimeout, is admitted and
\* makes the state HALF_OPEN with the operation invoked; clock advances and
\* getState / getMetrics calls change no field of the breaker.
C6_LazyHalfOpen ==
    [][ /\ (state = OPEN /\ ~StepIsOverride) =>
             /\ state' # OPEN =>
                   /\ state' = HALF_OPEN
                   /\ StepOp \in {"execute", "shouldAllowRequest"}
                   /\ TimeoutReached
             /\ (StepOp \in {"execute", "shouldAllowRequest"} /\ TimeoutReached) =>
                   /\ lastCb'.arg = "admitted"
                   /\ state' = HALF_OPEN
                   /\ stateChangedAt' = now
                   /\ StepOp = "execute" => (StepCall.pc = "running" /\ StepCall.invoked = 1)
        /\ StepOp \in {"tick", "getMetrics"} => UNCHANGED breakerVars
      ]_vars

\* an execute made exactly currentTimeout after the failure that opened the
\* breaker was admitted and made it HALF_OPEN
C6_Witness ==
    /\ state = HALF_OPEN /\ lastCb.op = "execute" /\ lastCb.arg = "admitted"
    /\ stateChangedAt = now
    /\ lastFailureTime # NoTime
    /\ RInt(now - lastFailureTime) = currentTimeout
    /\ totalFailures = config.failureThreshold

\* C7: every transition into OPEN made by a failure, from CLOSED or from
\* HALF_OPEN, sets currentTimeout to
\* min(previous currentTimeout * backoffMultiplier, maxTimeout).
C7_BackoffOnOpen ==
    [][ (state # OPEN /\ state' = OPEN /\ ~StepIsOverride) =>
          /\ StepIsFailure
          /\ currentTimeout' =
                (IF RLeq(RMulInt(currentTimeout, config.backoffMultiplier),
                         RInt(config.maxTimeout))
                 THEN RMulInt(currentTimeout, config.backoffMultiplier)
                 ELSE RInt(config.maxTimeout))
      ]_vars

\* failureThreshold 1, timeout 1, multiplier 2, maxTimeout 4: failure at 0
\* (timeout 2), admitted at 2 in HALF_OPEN, failure: OPEN with timeout 4
C7_Witness ==
    /\ config.failureThreshold = 1 /\ config.timeout = 1 /\ config.maxTimeout = 4
    /\ config.backoffMultiplier = 2
    /\ state = OPEN /\ currentTimeout = RInt(4)
    /\ totalRequests = 2 /\ totalFailures = 2 /\ cbOps = 2
    /\ now = 2 /\ stateChangedAt = 2

\* C8: in HALF_OPEN a failed operation moves the breaker to OPEN at once,
\* whatever the half-open success count, and resets that count to zero.
C8_HalfOpenFailureOpens ==
    [][ (state = HALF_OPEN /\ StepIsFailure) =>
          /\ state' = OPEN
          /\ successCount' = 0
          /\ stateChangedAt' = now
      ]_vars

\* a failure re-opened the breaker although fewer than failureThreshold
\* failures were counted and a half-open success had been recorded
C8_Witness ==
    /\ state = OPEN /\ lastCb.op = "complete" /\ lastCb.arg \in ThrownKinds
    /\ config.successThreshold = 2 /\ config.failureThreshold = 3
    /\ totalSuccesses = 1 /\ totalFailures = 1 /\ failureCount = 1
    /\ successCount = 0 /\ stateChangedAt = now
    /\ RLess(RInt(config.timeout), currentTimeout)

\* C9: in HALF_OPEN the success that brings the half-open success count to
\* successThreshold closes the breaker, zeroes the failure count and the
\* half-open success count and sets currentTimeout to
\* max(timeout, previous currentTimeout / backoffMultiplier); an earlier
\* success leaves the breaker HALF_OPEN.
C9_HalfOpenClosesAtThreshold ==
    [][ (state = HALF_OPEN /\ StepIsSuccess) =>
          IF successCount + 1 >= config.successThreshold
          THEN /\ state' = CLOSED
               /\ failureCount' = 0
               /\ successCount' = 0
               /\ currentTimeout' =
                     (IF RLeq(RInt(config.timeout),
                              RDivInt(currentTimeout, config.backoffMultiplier))
                      THEN RDivInt(currentTimeout, config.backoffMultiplier)
                      ELSE RInt(config.timeout))
          ELSE /\ state' = HALF_OPEN
               /\ successCount' = successCount + 1
               /\ currentTimeout' = currentTimeout
      ]_vars

\* a success has just closed the breaker and left currentTimeout at 3 / 2,
\* above the base timeout 1 (previous currentTimeout 3, backoffMultiplier 2)
C9_Witness ==
    /\ state = CLOSED /\ lastCb.op = "complete" /\ lastCb.arg = "success"
    /\ stateChangedAt = now /\ failureCount = 0 /\ successCount = 0
    /\ config.timeout = 1 /\ currentTimeout = [num |-> 3, den |-> 2]

\* C10: an admitted execute invokes the operation exactly once, returns a
\* thrown or rejected error in the result's error field with allowed = true,
\* returns a normal completion in result, and execute never throws or rejects.
C10_ExecuteNeverThrows ==
    \A c \in CallIds :
        /\ calls[c].pc # "rejected"
        /\ calls[c].pc = "running" => calls[c].invoked = 1
        /\ (calls[c].pc = "returned" /\ calls[c].res.allowed) =>
              (calls[c].invoked = 1 /\ calls[c].res.outcome \in {"result", "error"})
        /\ (calls[c].pc = "returned" /\ ~calls[c].res.allowed) => calls[c].invoked = 0

(***************************************************************************)
(* Claims about the sliding-window rate limiter (checked under SpecRL)     *)
(***************************************************************************)
IsCheckLimit == rlOps' = rlOps + 1 /\ lastRl'.op = "checkLimit"

\* the sum of the counts of the sub-windows with key >= t - periodMs
RetainedSum(w, t) == SumOver(w, {k \in DOMAIN w : k >= t - rlConfig.periodMs})

\* C11: a checkLimit call is allowed exactly when the counts of the retained
\* sub-windows (keys >= now - periodMs) sum to less than maxRequests before the
\* call, and right after an allowed call that sum is at most maxRequests and
\* no other sub-window is left in the table.
C11_AllowedIffBelowLimit ==
    [][IsCheckLimit =>
        /\ lastRl'.res.allowed <=> RetainedSum(windows, now) < rlConfig.maxRequests
        /\ lastRl'.res.allowed =>
             /\ RetainedSum(windows', now) <= rlConfig.maxRequests
             /\ \A k \in DOMAIN windows' : k >= now - rlConfig.periodMs]_vars

\* an allowed call that takes the last token, the usage being spread over two
\* sub-windows
C11_Witness ==
    /\ lastRl.op = "checkLimit" /\ lastRl.res.allowed /\ lastRl.consume
    /\ lastRl.usage = rlConfig.maxRequests - 1
    /\ Cardinality(DOMAIN windows) >= 2
    /\ getCurrentUsage(windows) = rlConfig.maxRequests

\* C12: a denied checkLimit reports remaining = 0 and a retryAfter strictly
\* greater than 0.
C12_DeniedHasPositiveRetryAfter ==
    (lastRl.op = "checkLimit" /\ ~lastRl.res.allowed) =>
        /\ lastRl.res.remaining = 0
        /\ lastRl.res.retryAfter > 0

\* C13: when every request consumed earlier is older than periodMs, a
\* checkLimit call sees usage 0 and is allowed; a consuming call reports
\* remaining = maxRequests - 1 (a call with consume = false consumes nothing
\* and reports maxRequests).
C13_OldRequestsStopCounting ==
    [][(/\ IsCheckLimit
        /\ consumed # <<>>
        /\ \A i \in 1..Len(consumed) : now - consumed[i] > rlConfig.periodMs) =>
          /\ lastRl'.usage = 0
          /\ lastRl'.res.allowed
          /\ lastRl'.consume => lastRl'.res.remaining = rlConfig.maxRequests - 1
          /\ ~lastRl'.consume => lastRl'.res.remaining = rlConfig.maxRequests]_vars

\* the limit was used up, the period has passed, and a new request is allowed
C13_Witness ==
    /\ lastRl.op = "checkLimit" /\ lastRl.consume /\ lastRl.res.allowed
    /\ lastRl.usage = 0
    /\ lastRl.res.remaining = rlConfig.maxRequests - 1
    /\ Len(consumed) = rlConfig.maxRequests + 1
    /\ consumed[Len(consumed)] = lastRl.at
    /\ \A i \in 1..(Len(consumed) - 1) : lastRl.at - consumed[i] > rlConfig.periodMs

\* C14: for every instant t, at most maxRequests requests were consumed
\* during the interval (t - periodMs, t].
C14_RollingPeriodBound ==
    \A t \in 0..now :
        Cardinality({i \in 1..Len(consumed) :
                       consumed[i] > t - rlConfig.periodMs /\ consumed[i] <= t})
            <= rlConfig.maxRequests

\* C15: a checkLimit retried exactly retryAfter milliseconds after a denied
\* one, with no call in between, is allowed.
C15_RetryAfterWaitIsEnough ==
    [][(/\ IsCheckLimit
        /\ lastRl.op = "checkLimit"
        /\ ~lastRl.res.allowed
        /\ now = lastRl.at + lastRl.res.retryAfter) =>
          lastRl'.res.allowed]_vars

(***************************************************************************)
(* Claims about the monitor (checked under SpecMon)                        *)
(***************************************************************************)
\* the last call was monitorCircuitBreaker with metrics.state = s, monitoring on
MonCbObserved(s) ==
    lastMon.op = "monitorCircuitBreaker" /\ lastMon.arg = s /\ monConfig.enabled

\* the opened and recovery events emitted for one identifier, in order
OpenedOrClosed(id) ==
    SelectSeq(emitted, LAMBDA e : /\ e.identifier = id
                                  /\ e.type \in {CIRCUIT_BREAKER_OPENED,
                                                 CIRCUIT_BREAKER_CLOSED})

\* no opened alert was raised for another identifier
OnlyIdentifier(id) ==
    \A i \in 1..Len(emitted) :
        emitted[i].type = CIRCUIT_BREAKER_OPENED => emitted[i].identifier = id

\* an opened alert of the identifier younger than alertAggregationWindow
OpenedInWindow(id) ==
    \E i \in 1..Len(emitted) :
        /\ emitted[i].type = CIRCUIT_BREAKER_OPENED
        /\ emitted[i].identifier = id
        /\ now - emitted[i].timestamp < monConfig.alertAggregationWindow

OpenedAllStored(id) ==
    Cardinality({k \in 1..Len(alerts) : /\ alerts[k].type = CIRCUIT_BREAKER_OPENED
                                        /\ alerts[k].identifier = id})
      = Cardinality({i \in 1..Len(emitted) : /\ emitted[i].type = CIRCUIT_BREAKER_OPENED
                                             /\ emitted[i].identifier = id})

IsMonitorCall ==
    /\ monOps' = monOps + 1
    /\ monConfig.enabled
    /\ lastMon'.op \in {"monitorRateLimit", "monitorCircuitBreaker", "monitorApiRequest"}

\* the alerts a call has stored
NewAlerts == {alerts'[i] : i \in (Len(alerts) + 1)..Len(alerts')}
NewTypes == {a.type : a \in NewAlerts}

RecentlyRecorded(type) ==
    \E i \in 1..Len(alerts) :
        /\ alerts[i].type = type
        /\ now - alerts[i].timestamp < monConfig.alertAggregationWindow

YoungUnresolved(source, severity) ==
    \E i \in 1..Len(alerts) :
        /\ alerts[i].source = source
        /\ alerts[i].severity = severity
        /\ ~alerts[i].resolved
        /\ now - alerts[i].timestamp < FiveMinutes

ExpectedStatus(source) ==
    IF YoungUnresolved(source, CRITICAL) THEN "critical"
    ELSE IF YoungUnresolved(source, WARNING) THEN "warning"
    ELSE "healthy"

\* C18: getHealthStatus reports per source 'critical' for an unresolved
\* CRITICAL alert younger than 5 minutes, else 'warning' for an unresolved
\* WARNING alert younger than 5 minutes, else 'healthy'; isHealthy holds exactly
\* when the three statuses are 'healthy' and no unresolved CRITICAL alert
\* younger than 5 minutes exists.
C18_HealthStatus ==
    lastMon.op = "getHealthStatus" =>
        LET h == lastMon.health
        IN  /\ h.rateLimiterStatus = ExpectedStatus(RATE_LIMITER)
            /\ h.circuitBreakerStatus = ExpectedStatus(CIRCUIT_BREAKER)
            /\ h.apiStatus = ExpectedStatus(API_CLIENT)
            /\ h.isHealthy <=>
                  /\ h.rateLimiterStatus = "healthy"
                  /\ h.circuitBreakerStatus = "healthy"
                  /\ h.apiStatus = "healthy"
                  /\ ~\E i \in 1..Len(alerts) :
                        /\ alerts[i].severity = CRITICAL
                        /\ ~alerts[i].resolved
                        /\ now - alerts[i].timestamp < FiveMinutes

\* the critical alert is resolved, the warning of the same source is not:
\* the circuit breaker is reported 'warning'
C18_Witness ==
    /\ lastMon.op = "getHealthStatus"
    /\ lastMon.health.circuitBreakerStatus = "warning"
    /\ ~lastMon.health.isHealthy
    /\ \E i \in 1..Len(alerts) :
          /\ alerts[i].severity = CRITICAL /\ alerts[i].resolved
          /\ now - alerts[i].timestamp < FiveMinutes

(***************************************************************************)
(* Claims about set followed by get (checked under SpecCache)              *)
(***************************************************************************)
\* a get(key) that directly follows set(key, value, ttl) with ttl > 0 or the
\* default TTL: no call and no clock advance in between
GetRightAfterSet ==
    /\ IsCacheCall
    /\ lastOp'.op = "get"
    /\ lastOp.op = "set"
    /\ lastOp'.key = lastOp.key
    /\ (IF lastOp.arg.ttl.given THEN lastOp.arg.ttl.ms ELSE defaultTTL) > 0

AdmittedInEpisode == {c \in CallIds : calls[c].pc = "running" /\ calls[c].episode}

\* C19: during one HALF_OPEN episode at most successThreshold operations are
\* admitted, also when execute calls overlap.
C19_HalfOpenAdmitsAtMostThreshold ==
    state = HALF_OPEN => Cardinality(AdmittedInEpisode) <= config.successThreshold

(***************************************************************************)
(* Claims about the memory accounting of the cache (checked under          *)
(* SpecCache)                                                              *)
(***************************************************************************)
RECURSIVE SizeSum(_, _)
\* the sum of the size estimates recorded for the first i entries of m
SizeSum(m, i) == IF i = 0 THEN 0 ELSE m[i].size + SizeSum(m, i - 1)

\* C21: in every reachable state the reported memoryUsage equals the sum of
\* the size estimates recorded for the entries currently stored.
C21_MemoryUsageIsSumOfSizes == currentMemoryUsage = SizeSum(cache, Len(cache))

\* a step that is one set call
IsSetCall == IsCacheCall /\ lastOp'.op = "set"

\* the entry a set call stores
NewEntry ==
    [key |-> lastOp'.key, value |-> lastOp'.arg.value, timestamp |-> now,
     ttl |-> IF lastOp'.arg.ttl.given THEN lastOp'.arg.ttl.ms ELSE defaultTTL,
     size |-> estimateSize(lastOp'.key, lastOp'.arg.value)]

\* the entries the capacity rule leaves for the new one: the former entry of
\* the key is replaced, else the least recently used one leaves a full cache
BeforeInsert ==
    IF lastOp'.key \in KeysOf(cache) THEN MapDelete(cache, lastOp'.key)
    ELSE IF Len(cache) >= maxSize /\ cache # <<>> THEN Tail(cache) ELSE cache

\* the memory counter right after the insertion of NewEntry behind before
UsageAfterInsert(before) ==
    Max(0, currentMemoryUsage - SizeSum(cache, Len(cache)) + SizeSum(before, Len(before)))
      + NewEntry.size

\* what the purge of the expired entries leaves, and the counter after it
LiveOf(entries) ==
    SelectSeq(entries, LAMBDA e : e.ttl > 0 /\ now - e.timestamp <= e.ttl)
UsageAfterPurge(usage, entries, live) ==
    Max(0, usage - (SizeSum(entries, Len(entries)) - SizeSum(live, Len(live))))

\* the counter after i least recently used entries were evicted one by one
UsageAfterEvicting(purged, live, i) == Max(0, purged - SizeSum(live, i))

\* C22: when a set leaves the memory counter above memoryThreshold, the
\* cleanup pass first removes every expired entry and then evicts entries in
\* least-recently-used order one at a time, stopping as soon as the counter
\* is no longer above the threshold; when set returns, memoryUsage is at most
\* memoryThreshold or the cache is empty; a set that leaves the counter at or
\* below the threshold removes nothing beyond the capacity eviction.
C22_MemoryCleanupPass ==
    [][IsSetCall =>
        \E before \in {BeforeInsert} :
        \E inserted \in {Append(before, NewEntry)} :
        \E usage \in {UsageAfterInsert(before)} :
           /\ currentMemoryUsage' <= memoryThreshold \/ cache' = <<>>
           /\ usage <= memoryThreshold =>
                 /\ cache' = inserted
                 /\ currentMemoryUsage' = usage
                 /\ cleanups' = cleanups
           /\ usage > memoryThreshold =>
                 \E live \in {LiveOf(inserted)} :
                 \E purged \in {UsageAfterPurge(usage, inserted, live)} :
                 \E n \in {Len(live) - Len(cache')} :
                    /\ n >= 0
                    /\ cache' = SubSeq(live, n + 1, Len(live))
                    /\ \A i \in 0..(n - 1) :
                          UsageAfterEvicting(purged, live, i) > memoryThreshold
                    /\ UsageAfterEvicting(purged, live, n) <= memoryThreshold
                          \/ n = Len(live)
                    /\ currentMemoryUsage' = UsageAfterEvicting(purged, live, n)
                    /\ evictions' - evictions
                         = n + (IF /\ lastOp'.key \notin KeysOf(cache)
                                   /\ Len(before) < Len(cache) THEN 1 ELSE 0)
     ]_vars

\* a set pushed the counter over the threshold; the pass evicted the least
\* recently used entry and stopped with the new entry stored
C22_Witness ==
    /\ lastOp.op = "set"
    /\ lastOp.removed # {}
    /\ lastOp.key \in KeysOf(cache)
    /\ Len(cache) < maxSize
    /\ cleanups > 0 /\ evictions > 0
    /\ currentMemoryUsage <= memoryThreshold

(***************************************************************************)
(* Claims about the failure accounting of the breaker (checked under       *)
(* SpecCB)                                                                 *)
(***************************************************************************)
\* every recorded failure is inside the monitoring window
AllFailuresInWindow ==
    \A i \in 1..Len(failures) : failures[i] > now - config.monitoringPeriod

\* C23: in CLOSED state the decay of the failure counter by a success counts
\* toward the threshold comparison of later calls: with every failure inside
\* the monitoring window, the next execute finds the counter as the last
\* completion left it.
C23_DecayCountsForLaterCalls ==
    [][(StepOp = "execute" /\ state = CLOSED /\ AllFailuresInWindow) =>
          failureCount' = failureCount]_vars

\* C24: after a HALF_OPEN to CLOSED transition the failure count is zero and
\* the failures recorded before the transition no longer count toward
\* failureThreshold: a call made right after the recovery finds no failure
\* to count.
C24_RecoveryResetsFailureAccounting ==
    [][(StepIsSuccess /\ state = HALF_OPEN /\ state' = CLOSED) =>
          /\ failureCount' = 0
          /\ cleanupOldFailures([BreakerObj EXCEPT !.failures = failures'], now)
                 .failureCount = 0]_vars

(***************************************************************************)
(* Claims about the reset of the timeout (checked under SpecSeq)           *)
(***************************************************************************)
\* the breaker has closed after a recovery and has recorded no failure since
RecoveredSinceLastFailure ==
    state = CLOSED /\ stateChangedAt > 0 /\ lastFailureTime < stateChangedAt

\* the consecutive successes recorded in CLOSED state since the last failure,
\* the one being recorded included: with awaited calls a recovery is made of
\* exactly successThreshold successes in HALF_OPEN
ClosedStateSuccesses ==
    IF RecoveredSinceLastFailure
    THEN consecutiveSuccesses' - config.successThreshold
    ELSE consecutiveSuccesses'

\* C25: a success in CLOSED state resets currentTimeout to the base timeout
\* once resetThreshold consecutive successes have accumulated in CLOSED state
\* since the last failure; successes recorded while HALF_OPEN do not count,
\* and before that many CLOSED-state successes currentTimeout keeps its value.
C25_ResetAfterClosedStateSuccesses ==
    [][(StepIsSuccess /\ state = CLOSED) =>
          IF ClosedStateSuccesses >= config.resetThreshold
          THEN currentTimeout' = RInt(config.timeout)
          ELSE currentTimeout' = currentTimeout]_vars

(***************************************************************************)
(* Claims about the stored alerts (checked under SpecMon)                  *)
(***************************************************************************)
\* C26: the number of stored alerts never exceeds maxStoredAlerts, after any
\* sequence of monitor calls, with or without the metrics timer running.
C26_StoredAlertsWithinMax == Len(alerts) <= monConfig.maxStoredAlerts
(***************************************************************************)
(* C27: for one cache type, every getOrCreateCache call made between two   *)
(* shutdowns returns the instance of the first such call, whose maxSize is *)
(* the one the first call's overrides give, and constructs nothing; a      *)
(* first call and every createCache call return an instance that did not   *)
(* exist before the call.                                                  *)
(***************************************************************************)
FacStepOp == IF facOps' # facOps THEN lastFac'.op ELSE "none"

ConfiguredMaxSize(type, customConfig) ==
    IF customConfig.given THEN customConfig.maxSize ELSE PresetMaxSize(type)

C27_SingletonFirstCallWins ==
    [][/\ FacStepOp = "getOrCreateCache" =>
            LET type == lastFac'.type
                known == FirstNow[type]
            IN  IF known.inst # 0
                THEN /\ lastFac'.ret = known.inst
                     /\ instances' = instances
                     /\ instances'[known.inst].maxSize =
                            ConfiguredMaxSize(type, known.customConfig)
                ELSE /\ lastFac'.ret \notin 1..Len(instances)
                     /\ instances'[lastFac'.ret].maxSize =
                            ConfiguredMaxSize(type, lastFac'.customConfig)
       /\ FacStepOp = "createCache" =>
            /\ lastFac'.ret \notin 1..Len(instances)
            /\ Len(instances') = Len(instances) + 1
      ]_vars

\* a second getOrCreateCache of a type, with other overrides than the first,
\* returned the first call's instance
C27_Witness ==
    /\ lastFac.op = "getOrCreateCache"
    /\ lastFac.first[lastFac.type].inst = lastFac.ret
    /\ lastFac.first[lastFac.type].customConfig # lastFac.customConfig
    /\ Len(instances) >= 2

(***************************************************************************)
(* C28: right after shutdown(), every instance the factory has returned    *)
(* since the previous shutdown has its cleanup timer stopped and holds no  *)
(* entries, and getAllCacheStats() is empty.                               *)
(***************************************************************************)
C28_ShutdownStopsEveryReturnedCache ==
    lastFac.op = "shutdown" =>
        /\ \A c \in lastFac.handed :
               /\ ~instances[c].cleanupTimer
               /\ instances[c].size = 0
        /\ getAllCacheStats(FactoryObj) = {}

(***************************************************************************)
(* C29: new CircuitBreaker(config) throws exactly when failureThreshold,   *)
(* successThreshold, monitoringPeriod, timeout or resetThreshold is <= 0,  *)
(* backoffMultiplier is <= 1 or maxTimeout < timeout; new                  *)
(* SlidingWindowRateLimiter(config) throws when periodMs < windowMs; a     *)
(* constructor that threw left no object to call, and no call on a         *)
(* constructed object ends with one of the configuration errors.           *)
(***************************************************************************)
C29_ConfigRejectedAtConstruction ==
    /\ built.class = "CircuitBreaker" =>
           (built.error # NoError <=>
               \/ built.arg.failureThreshold <= 0
               \/ built.arg.successThreshold <= 0
               \/ built.arg.monitoringPeriod <= 0
               \/ built.arg.timeout <= 0
               \/ built.arg.resetThreshold <= 0
               \/ built.arg.backoffMultiplier <= 1
               \/ built.arg.maxTimeout < built.arg.timeout)
    /\ (built.class = "SlidingWindowRateLimiter" /\ built.arg.periodMs < built.arg.windowMs)
           => built.error # NoError
    /\ built.error # NoError => cbOps = 0 /\ rlOps = 0
    /\ \A c \in CallIds : calls[c].res.outcome \notin ConfigErrors

\* a config whose only fault is maxTimeout < timeout was rejected
C29_Witness ==
    /\ built.class = "CircuitBreaker"
    /\ built.error = "Max timeout must be greater than or equal to initial timeout"
    /\ built.arg.backoffMultiplier > 1
    /\ built.arg.resetThreshold > 0

(***************************************************************************)
(* C30: with fallbackOnCacheError (and caching) enabled, a lookup whose    *)
(* cache read throws makes exactly one base-client call per domain and     *)
(* returns its result (for the bulk lookup: lists the response under       *)
(* successful, or the domain under failed when that call fails); when the  *)
(* cache write throws after a successful API call the API's response is    *)
(* still returned; and a step changes a cache entry only to the response   *)
(* of an API call that succeeded in that step.                             *)
(***************************************************************************)
ClStepOp == IF clOps' # clOps THEN lastCl'.op ELSE "none"

ApiResponse(domain, env) == [domain |-> domain, available |-> env.api[domain] = "available"]

TimesCalled(baseCalls, domain) ==
    Cardinality({i \in 1..Len(baseCalls) : baseCalls[i] = domain})

Listed(list) == {list[i] : i \in 1..Len(list)}

C30_CacheErrorsAreNonFatal ==
    [][LET call == lastCl'
           env == call.env
           asked == IF ClStepOp = "checkDomainAvailability"
                    THEN {call.domains[1]}
                    ELSE {trim(toLowerCase(call.domains[i])) : i \in 1..Len(call.domains)}
           fallback == clOptions.enableCaching /\ clOptions.fallbackOnCacheError
       IN  ClStepOp # "none" =>
             \* the read throws: one direct call per domain, its result returned
             /\ (fallback /\ env.readThrows) =>
                  /\ \A d \in asked : TimesCalled(call.baseCalls, d) = 1
                  /\ Len(call.baseCalls) = Cardinality(asked)
                  /\ ClStepOp = "checkDomainAvailability" =>
                         call.ret = baseCheck(call.domains[1], env)
                  /\ ClStepOp = "checkDomainsAvailability" =>
                         \A d \in asked :
                            IF env.api[d] = "throws"
                            THEN /\ d \in {f.domain : f \in Listed(call.bulk.failed)}
                                 /\ d \notin {r.domain : r \in Listed(call.bulk.successful)}
                            ELSE /\ ApiResponse(d, env) \in Listed(call.bulk.successful)
                                 /\ d \notin {f.domain : f \in Listed(call.bulk.failed)}
             \* the write throws after a successful API call
             /\ env.writeThrows =>
                  \A d \in asked :
                     (TimesCalled(call.baseCalls, d) > 0 /\ env.api[d] # "throws") =>
                        IF ClStepOp = "checkDomainAvailability"
                        THEN call.ret = Returned(ApiResponse(d, env))
                        ELSE ApiResponse(d, env) \in Listed(call.bulk.successful)
             \* a failed API call writes nothing
             /\ \A k \in CacheKeys :
                  clCache'[k] # clCache[k] =>
                     \E d \in asked :
                        /\ generateCacheKey(d) = k
                        /\ TimesCalled(call.baseCalls, d) > 0
                        /\ env.api[d] # "throws"
                        /\ clCache'[k] = ApiResponse(d, env)
      ]_vars

\* a bulk lookup of two domains with the cache throwing on read and on write:
\* one API call succeeded and is listed, the other failed
C30_Witness ==
    /\ lastCl.op = "checkDomainsAvailability"
    /\ clOptions.enableCaching /\ clOptions.fallbackOnCacheError
    /\ lastCl.env.readThrows /\ lastCl.env.writeThrows
    /\ Len(lastCl.bulk.successful) = 1
    /\ Len(lastCl.bulk.failed) = 1
    /\ Len(lastCl.baseCalls) = 2

(***************************************************************************)
(* C31: the burst fields are advisory. From the same window table, at the  *)
(* same time and with the same consume flag, a limiter whose config        *)
(* differs only in burstSize and burstWindowMs returns the same result     *)
(* (allowed, remaining, retryAfter and the other fields) and leaves the    *)
(* same table, so two such limiters stay in step over every call sequence. *)
(***************************************************************************)
BurstSettings == {[burstSize |-> 1, burstWindowMs |-> 1],
                  [burstSize |-> 5, burstWindowMs |-> 300000]}

WithBurst(cfg, b) ==
    [cfg EXCEPT !.burstSize = b.burstSize, !.burstWindowMs = b.burstWindowMs]

RetainedRequests(history, t) ==
    Cardinality({i \in 1..Len(history) :
                   getWindowKey(rlConfig, history[i]) >= t - rlConfig.periodMs})

C39_IdentifierHasNoEffect ==
    [][IsCheckLimit =>
        /\ lastRl'.usage = RetainedRequests(consumed, now)
        /\ lastRl'.res.allowed <=> lastRl'.usage < rlConfig.maxRequests
        /\ lastRl'.res.remaining =
              Max(0, rlConfig.maxRequests - lastRl'.usage
                       - (IF lastRl'.consume /\ lastRl'.res.allowed THEN 1 ELSE 0))
        /\ getCurrentUsage(windows') = RetainedRequests(consumed', now)
        /\ (/\ lastRl.op = "checkLimit" /\ lastRl.at = now
            /\ lastRl.consume /\ lastRl.res.allowed
            /\ lastRl'.identifier # lastRl.identifier)
             => lastRl'.usage = lastRl.usage + 1]_vars

\* a request of B is denied because A used up the quota
C39_Witness ==
    /\ lastRl.op = "checkLimit" /\ lastRl.identifier = "B" /\ ~lastRl.res.allowed
    /\ consumed # <<>>
    /\ lastRl.usage = rlConfig.maxRequests
    /\ rlOps = rlConfig.maxRequests + 1

(***************************************************************************)
(* C32: has(key) never changes the eviction order. For a live key it       *)
(* leaves the entries, their order and the hit, miss and eviction counters *)
(* unchanged (for an expired key it only removes that entry); so a set of  *)
(* a new key into a full cache, made after has() answered true for the     *)
(* least recently used key, still evicts that key.                         *)
(***************************************************************************)
IsHasCall == IsCacheCall /\ lastOp'.op = "has"

C32_HasKeepsEvictionOrder ==
    [][/\ IsHasCall =>
            /\ cache' = IF lastOp'.retBool THEN cache ELSE MapDelete(cache, lastOp'.key)
            /\ hits' = hits /\ misses' = misses /\ evictions' = evictions
            /\ lastOp'.retBool <=>
                  /\ lastOp'.key \in KeysOf(cache)
                  /\ ~isExpired(EntryOf(cache, lastOp'.key), now)
       /\ (/\ IsSetCall
           /\ lastOp.op = "has" /\ lastOp.retBool
           /\ cache # <<>> /\ cache[1].key = lastOp.key
           /\ Len(cache) >= maxSize
           /\ lastOp'.key \notin KeysOf(cache))
            => lastOp.key \notin KeysOf(cache')
      ]_vars

\* has() answered true for the least recently used key of a full cache of
\* two entries
C32_Witness ==
    /\ lastOp.op = "has" /\ lastOp.retBool
    /\ maxSize = 2 /\ Len(cache) = 2
    /\ cache[1].key = lastOp.key

(***************************************************************************)
(* C33, as stated: set on a key that is present replaces its value and TTL *)
(* and evicts nothing: every other entry stays as it was and the number of *)
(* entries is unchanged, also in a full cache, whatever value is written.  *)
(***************************************************************************)
OverwriteInPlace ==
    /\ Len(cache') = Len(cache)
    /\ KeysOf(cache') = KeysOf(cache)
    /\ \A k \in KeysOf(cache) \ {lastOp'.key} : EntryOf(cache', k) = EntryOf(cache, k)
    /\ EntryOf(cache', lastOp'.key) = NewEntry

C33_OverwriteEvictsNothing ==
    [][(IsSetCall /\ lastOp'.key \in KeysOf(cache)) => OverwriteInPlace]_vars

\* C33, amended: the same, provided the memory counter after the write is not
\* above memoryThreshold (else the memory cleanup pass of set runs, see C22);
\* the evictions counter is then unchanged as well.
C33_OverwriteWithinMemoryThreshold ==
    [][(/\ IsSetCall
        /\ lastOp'.key \in KeysOf(cache)
        /\ UsageAfterInsert(BeforeInsert) <= memoryThreshold)
          => /\ OverwriteInPlace
             /\ evictions' = evictions]_vars

\* a key of a full cache of two entries was overwritten with another value
\* and both keys are still stored
C33_Witness ==
    /\ lastOp.op = "set"
    /\ maxSize = 2 /\ Len(cache) = 2
    /\ lastOp.removed = {}
    /\ evictions = 0 /\ cacheOps >= 3
    /\ cache[2].key = lastOp.key

(***************************************************************************)
(* C34: at the start of every execute call exactly the failure timestamps  *)
(* whose age is greater than monitoringPeriod are purged (a failure aged   *)
(* monitoringPeriod or less is kept), and the windowed failure count       *)
(* becomes the number of retained timestamps.                              *)
(***************************************************************************)
C34_PurgeOlderThanMonitoringPeriod ==
    [][StepOp = "execute" =>
        /\ failures' = SelectSeq(failures,
                                 LAMBDA timestamp : now - timestamp <= config.monitoringPeriod)
        /\ failureCount' = Len(failures')]_vars

(***************************************************************************)
(* C35: in every reachable state of a breaker built from a valid config,   *)
(* timeout <= currentTimeout <= maxTimeout (reset and forceState           *)
(* included).                                                              *)
(***************************************************************************)
C35_TimeoutWithinBounds ==
    /\ RLeq(RInt(config.timeout), currentTimeout)
    /\ RLeq(currentTimeout, RInt(config.maxTimeout))

\* the breaker opened again and the multiplied timeout was cut to maxTimeout
C35_Witness ==
    /\ state = OPEN
    /\ currentTimeout = RInt(config.maxTimeout)
    /\ config.maxTimeout = 3
    /\ totalFailures >= 3

(***************************************************************************)
(* C36: in every reachable state totalSuccesses + totalFailures <=         *)
(* totalRequests, also with overlapping execute calls and with reset()     *)
(* called while admitted operations are in flight.                         *)
(***************************************************************************)
C36_OutcomesWithinRequests == totalSuccesses + totalFailures <= totalRequests

C38_StaleCompletionIgnored ==
    [][(/\ StepOp = "complete"
        /\ state = HALF_OPEN
        /\ ~calls[lastCb'.call].episode)
          => /\ state' = HALF_OPEN
             /\ successCount' = successCount]_vars

(***************************************************************************)
(* C40: de-duplication of circuit-opened alerts loses no identifier. When  *)
(* an identifier is observed OPEN while an opened alert of a different     *)
(* identifier is younger than alertAggregationWindow, an opened alert of   *)
(* the observed identifier has been recorded (the alert that a later       *)
(* CLOSED observation needs in order to emit the recovery alert).          *)
(***************************************************************************)
C40_DedupLosesNoIdentifier ==
    \A id \in Identifiers :
        (/\ MonCbObserved(OPEN)
         /\ lastMon.identifier = id
         /\ \E i \in 1..Len(emitted) :
               /\ emitted[i].type = CIRCUIT_BREAKER_OPENED
               /\ emitted[i].identifier # id
               /\ lastMon.at - emitted[i].timestamp < monConfig.alertAggregationWindow)
          => \E j \in 1..Len(emitted) :
                 /\ emitted[j].type = CIRCUIT_BREAKER_OPENED
                 /\ emitted[j].identifier = id

====
